---------------------------- MODULE Spec2Model ----------------------------
(***************************************************************************)
(* A model of rust-tabular: the DSV (delimiter-separated values) and the   *)
(* fixed-width readers and writers of src/src/dsv.rs and src/src/fixed.rs. *)
(*                                                                         *)
(* A character is a one-symbol string; the control characters and the      *)
(* characters outside ASCII carry their names ("CR", "LF", "NEL", ...).    *)
(* A string is a sequence of characters, a Row a sequence of strings.      *)
(* An IoResult is Ok(v) or Err(e), an Option is None or Some(x).           *)
(***************************************************************************)
EXTENDS Naturals, Sequences, FiniteSets, TLC

VARIABLES
    session,    \* the public entry point this run exercises
    config,     \* the Config handed to it (dsv::Config or fixed::Config)
    col,        \* the field handed to write_column
    rows,       \* the rows handed to write_rows
    writer,     \* the characters the sink has received
    wres,       \* the write call's result: None before the call, then Some(IoResult)
    source,     \* the text the reader is built on
    reader,     \* Rows.reader: the number of characters of source consumed
    done,       \* Rows.done
    returned,   \* what the calls to Rows::next returned so far, in order
    pc          \* where the run is

vars == <<session, config, col, rows, writer, wres, source, reader, done, returned, pc>>

----------------------------------------------------------------------------
(* Result and option values *)

Ok(v) == [ok |-> TRUE, val |-> v]
Err(e) == [ok |-> FALSE, err |-> e]
None == <<>>
Some(x) == <<x>>

(* `let r = v; F(r)`: v is evaluated once and named *)
With(v, F(_)) == F(v)

(* std::io::IoError values: kind and desc (detail is None everywhere) *)
EOF_ERROR == [kind |-> "EndOfFile", desc |-> "end of file"]
INVALID_LINE_ENDING == [kind |-> "InvalidInput", desc |-> "Invalid line ending"]
EXPECTING_LT_OR_DELIM ==
    [kind |-> "InvalidInput", desc |-> "Expecting line terminator or delimiter"]
EXPECTING_QUOTE_CHAR == [kind |-> "InvalidInput", desc |-> "Expecting quote char"]
MUST_QUOTE == [kind |-> "InvalidInput", desc |-> "Value should be quoted"]
ESCAPE_DISALLOWED == [kind |-> "InvalidInput", desc |-> "Escaping disallowed"]
ESCAPE_CHAR_IN_QUOTE ==
    [kind |-> "InvalidInput", desc |-> "Escape characted not allowed in quote"]

----------------------------------------------------------------------------
(* Characters and strings *)

(* The number of bytes of a character's UTF-8 encoding: U+0085 (NEL) and   *)
(* U+00E9 take two bytes, U+2028 (LS) and U+2029 (PS) three, ASCII one.    *)
Utf8Len(ch) ==
    CASE ch \in {"NEL", "U00E9"} -> 2
      [] ch \in {"LS", "PS"} -> 3
      [] OTHER -> 1

(* str::len: the length of a string in bytes *)
RECURSIVE StrLen(_)
StrLen(s) == IF s = <<>> THEN 0 ELSE Utf8Len(Head(s)) + StrLen(Tail(s))

(* s.chars().any(p) for p = membership in a set of characters *)
AnyCharIn(s, set) == \E i \in 1..Len(s) : s[i] \in set

(* ch.to_str().repeat(n) *)
Repeat(ch, n) == [i \in 1..n |-> ch]

LineTerminators == {"LF", "CR", "CRLF", "VT", "FF", "NEL", "LS", "PS"}

as_str(lt) ==
    CASE lt = "LF" -> <<"LF">>
      [] lt = "CR" -> <<"CR">>
      [] lt = "CRLF" -> <<"CR", "LF">>
      [] lt = "VT" -> <<"VT">>
      [] lt = "FF" -> <<"FF">>
      [] lt = "NEL" -> <<"NEL">>
      [] lt = "LS" -> <<"LS">>
      [] lt = "PS" -> <<"PS">>

is_beginning(lt, ch) == ch = as_str(lt)[1]

----------------------------------------------------------------------------
(* dsv::Config *)

Double == <<"Double">>
Char(c) == <<"Char", c>>
Disallowed == <<"Disallowed">>

CSV == [delimiter |-> ",", quote_char |-> "\"", escape |-> Double,
        line_terminator |-> "CRLF", quote |-> "Minimal"]

TSV == [delimiter |-> "TAB", quote_char |-> "NUL", escape |-> Disallowed,
        line_terminator |-> "CRLF", quote |-> "Never"]

escape_char(cfg) ==
    CASE cfg.escape = Double -> Some(cfg.quote_char)
      [] cfg.escape = Disallowed -> None
      [] OTHER -> Some(cfg.escape[2])

----------------------------------------------------------------------------
(* dsv::Columns: the column tokenizer.  A Columns value c is the record    *)
(* [reader, row_done, done, allow_empty, column, pos]; reader is the       *)
(* position in the borrowed source.  Every method returns the Columns      *)
(* value it leaves behind (st) and its result (res).                       *)

dsv_Columns(rd) ==
    [reader |-> rd, row_done |-> FALSE, done |-> FALSE, allow_empty |-> FALSE,
     column |-> 0, pos |-> 0]

dsv_read_char(src, c) ==
    IF c.reader < Len(src)
    THEN [st |-> [c EXCEPT !.reader = @ + 1, !.pos = @ + 1],
          res |-> Ok(src[c.reader + 1])]
    ELSE [st |-> c, res |-> Err(EOF_ERROR)]

(* A faulty loop of read_line_terminator: a character that is not the one  *)
(* expected is taken for it.                                               *)
RECURSIVE dsv_read_line_terminator_from_any_char(_, _, _)
dsv_read_line_terminator_from_any_char(lt, src, c) ==
    IF lt = <<>>
    THEN [st |-> [c EXCEPT !.row_done = TRUE], res |-> Ok(<<>>)]
    ELSE With(dsv_read_char(src, c), LAMBDA r :
         IF r.res.ok
         THEN dsv_read_line_terminator_from_any_char(Tail(lt), src, r.st)
         ELSE [st |-> r.st, res |-> r.res])

(* the loop of read_line_terminator over the characters lt still expected *)
RECURSIVE dsv_read_line_terminator_from(_, _, _)
dsv_read_line_terminator_from(lt, src, c) ==
    IF lt = <<>>
    THEN [st |-> [c EXCEPT !.row_done = TRUE], res |-> Ok(<<>>)]
    ELSE With(dsv_read_char(src, c), LAMBDA r :
         IF r.res.ok
         THEN IF r.res.val = Head(lt)
              THEN dsv_read_line_terminator_from(Tail(lt), src, r.st)
              ELSE [st |-> r.st, res |-> Err(INVALID_LINE_ENDING)]
         ELSE [st |-> r.st, res |-> r.res])

(* A faulty read_line_terminator: the row is marked done on the            *)
(* terminator's first character, and the rest of it is left unread.        *)
dsv_read_line_terminator_first_only(cfg, src, c) ==
    [st |-> [c EXCEPT !.row_done = TRUE], res |-> Ok(<<>>)]

dsv_read_line_terminator(cfg, src, c) ==
    dsv_read_line_terminator_from(Tail(as_str(cfg.line_terminator)), src, c)

(* A faulty quoted_end: any character after the closing quote ends the     *)
(* field as the delimiter does.                                            *)
quoted_end_any_char(cfg, src, c, next, res) ==
    IF next.ok
    THEN IF is_beginning(cfg.line_terminator, next.val)
         THEN With(dsv_read_line_terminator(cfg, src, c), LAMBDA r :
              IF r.res.ok THEN [st |-> r.st, res |-> Ok(res)] ELSE r)
         ELSE [st |-> c, res |-> Ok(res)]
    ELSE IF next.err.kind = "EndOfFile"
         THEN [st |-> [c EXCEPT !.row_done = TRUE, !.done = TRUE], res |-> Ok(res)]
         ELSE [st |-> c, res |-> next]

quoted_end(cfg, src, c, next, res) ==
    IF next.ok
    THEN IF next.val = cfg.delimiter
         THEN [st |-> c, res |-> Ok(res)]
         ELSE IF is_beginning(cfg.line_terminator, next.val)
         THEN With(dsv_read_line_terminator(cfg, src, c), LAMBDA r :
              IF r.res.ok THEN [st |-> r.st, res |-> Ok(res)] ELSE r)
         ELSE [st |-> c, res |-> Err(EXPECTING_LT_OR_DELIM)]
    ELSE IF next.err.kind = "EndOfFile"
         THEN [st |-> [c EXCEPT !.row_done = TRUE, !.done = TRUE], res |-> Ok(res)]
         ELSE [st |-> c, res |-> next]

(* A faulty loop of read_quoted_column: an escape character that no quote  *)
(* character follows is kept as field data.                                *)
RECURSIVE read_quoted_column_loop_lenient_escape(_, _, _, _)
read_quoted_column_loop_lenient_escape(cfg, src, c, acc) ==
    With(dsv_read_char(src, c), LAMBDA r :
    IF r.res.ok
    THEN With(dsv_read_char(src, r.st), LAMBDA next :
         IF escape_char(cfg) # Some(cfg.quote_char) /\ Some(r.res.val) = escape_char(cfg)
         THEN IF next.res.ok /\ next.res.val = cfg.quote_char
              THEN read_quoted_column_loop_lenient_escape(
                       cfg, src, next.st, Append(acc, next.res.val))
              ELSE read_quoted_column_loop_lenient_escape(
                       cfg, src, r.st, Append(acc, r.res.val))
         ELSE IF escape_char(cfg) # Some(cfg.quote_char) /\ r.res.val = cfg.quote_char
         THEN quoted_end(cfg, src, next.st, next.res, acc)
         ELSE IF r.res.val = cfg.quote_char
         THEN IF next.res.ok /\ next.res.val = cfg.quote_char
              THEN read_quoted_column_loop_lenient_escape(
                       cfg, src, next.st, Append(acc, next.res.val))
              ELSE quoted_end(cfg, src, next.st, next.res, acc)
         ELSE read_quoted_column_loop_lenient_escape(
                  cfg, src, r.st, Append(acc, r.res.val)))
    ELSE [st |-> r.st, res |-> r.res])

(* A faulty loop of read_quoted_column: a delimiter inside the quotes ends *)
(* the field.                                                              *)
RECURSIVE read_quoted_column_loop_delimiter_ends(_, _, _, _)
read_quoted_column_loop_delimiter_ends(cfg, src, c, acc) ==
    With(dsv_read_char(src, c), LAMBDA r :
    IF r.res.ok
    THEN With(dsv_read_char(src, r.st), LAMBDA next :
         IF escape_char(cfg) # Some(cfg.quote_char) /\ Some(r.res.val) = escape_char(cfg)
         THEN IF next.res.ok /\ next.res.val = cfg.quote_char
              THEN read_quoted_column_loop_delimiter_ends(
                       cfg, src, next.st, Append(acc, next.res.val))
              ELSE [st |-> next.st, res |-> Err(EXPECTING_QUOTE_CHAR)]
         ELSE IF escape_char(cfg) # Some(cfg.quote_char) /\ r.res.val = cfg.quote_char
         THEN quoted_end(cfg, src, next.st, next.res, acc)
         ELSE IF r.res.val = cfg.quote_char
         THEN IF next.res.ok /\ next.res.val = cfg.quote_char
              THEN read_quoted_column_loop_delimiter_ends(
                       cfg, src, next.st, Append(acc, next.res.val))
              ELSE quoted_end(cfg, src, next.st, next.res, acc)
         ELSE IF r.res.val = cfg.delimiter
         THEN [st |-> r.st, res |-> Ok(acc)]
         ELSE read_quoted_column_loop_delimiter_ends(
                  cfg, src, r.st, Append(acc, r.res.val)))
    ELSE [st |-> r.st, res |-> r.res])

(* A faulty loop of read_quoted_column: the escape character of            *)
(* Escape::Char(c) is taken as distinct from the quote character without   *)
(* comparing the two.                                                      *)
RECURSIVE read_quoted_column_loop_char_is_distinct(_, _, _, _)
read_quoted_column_loop_char_is_distinct(cfg, src, c, acc) ==
    With(dsv_read_char(src, c), LAMBDA r :
    IF r.res.ok
    THEN With(dsv_read_char(src, r.st), LAMBDA next :
         IF cfg.escape # Double /\ Some(r.res.val) = escape_char(cfg)
         THEN IF next.res.ok /\ next.res.val = cfg.quote_char
              THEN read_quoted_column_loop_char_is_distinct(
                       cfg, src, next.st, Append(acc, next.res.val))
              ELSE [st |-> next.st, res |-> Err(EXPECTING_QUOTE_CHAR)]
         ELSE IF cfg.escape # Double /\ r.res.val = cfg.quote_char
         THEN quoted_end(cfg, src, next.st, next.res, acc)
         ELSE IF r.res.val = cfg.quote_char
         THEN IF next.res.ok /\ next.res.val = cfg.quote_char
              THEN read_quoted_column_loop_char_is_distinct(
                       cfg, src, next.st, Append(acc, next.res.val))
              ELSE quoted_end(cfg, src, next.st, next.res, acc)
         ELSE read_quoted_column_loop_char_is_distinct(
                  cfg, src, r.st, Append(acc, r.res.val)))
    ELSE [st |-> r.st, res |-> r.res])

(* the loop of read_quoted_column: r is the character read at its top,     *)
(* next the one read after an escape character or a quote character        *)
RECURSIVE read_quoted_column_loop(_, _, _, _)
read_quoted_column_loop(cfg, src, c, acc) ==
    With(dsv_read_char(src, c), LAMBDA r :
    IF r.res.ok
    THEN With(dsv_read_char(src, r.st), LAMBDA next :
         IF escape_char(cfg) # Some(cfg.quote_char) /\ Some(r.res.val) = escape_char(cfg)
         THEN IF next.res.ok /\ next.res.val = cfg.quote_char
              THEN read_quoted_column_loop(cfg, src, next.st, Append(acc, next.res.val))
              ELSE [st |-> next.st, res |-> Err(EXPECTING_QUOTE_CHAR)]
         ELSE IF escape_char(cfg) # Some(cfg.quote_char) /\ r.res.val = cfg.quote_char
         THEN quoted_end(cfg, src, next.st, next.res, acc)
         ELSE IF r.res.val = cfg.quote_char
         THEN IF next.res.ok /\ next.res.val = cfg.quote_char
              THEN read_quoted_column_loop(cfg, src, next.st, Append(acc, next.res.val))
              ELSE quoted_end(cfg, src, next.st, next.res, acc)
         ELSE read_quoted_column_loop(cfg, src, r.st, Append(acc, r.res.val)))
    ELSE [st |-> r.st, res |-> r.res])

read_quoted_column(cfg, src, c) ==
    read_quoted_column_loop(cfg, src, [c EXCEPT !.allow_empty = TRUE], <<>>)

(* A faulty check_eof: the end of the source ends the row and not the     *)
(* rows (done is left unset).                                              *)
check_eof_not_done(c, err, allow_empty, res) ==
    IF ~c.row_done /\ err.kind = "EndOfFile" /\ (StrLen(res) > 0 \/ allow_empty)
    THEN [st |-> [c EXCEPT !.row_done = TRUE], res |-> Ok(res)]
    ELSE [st |-> c, res |-> Err(err)]

check_eof(c, err, allow_empty, res) ==
    IF ~c.row_done /\ err.kind = "EndOfFile" /\ (StrLen(res) > 0 \/ allow_empty)
    THEN [st |-> [c EXCEPT !.row_done = TRUE, !.done = TRUE], res |-> Ok(res)]
    ELSE [st |-> c, res |-> Err(err)]

(* the loop of read_unquoted_column on the read result curr *)
RECURSIVE read_unquoted_column_loop(_, _, _, _, _)
read_unquoted_column_loop(cfg, src, c, curr, acc) ==
    IF curr.ok
    THEN IF is_beginning(cfg.line_terminator, curr.val)
         THEN With(dsv_read_line_terminator(cfg, src, c), LAMBDA r :
              IF r.res.ok THEN [st |-> r.st, res |-> Ok(acc)] ELSE r)
         ELSE IF curr.val # cfg.delimiter
         THEN With(dsv_read_char(src, c), LAMBDA r :
              read_unquoted_column_loop(cfg, src, r.st, r.res, Append(acc, curr.val)))
         ELSE [st |-> c, res |-> Ok(acc)]
    ELSE check_eof(c, curr.err, c.column > 0, acc)

read_unquoted_column(cfg, src, c, curr) ==
    read_unquoted_column_loop(cfg, src, [c EXCEPT !.allow_empty = FALSE], curr, <<>>)

(* A faulty read_column: quoted scanning is entered under the policy       *)
(* Minimal only.                                                           *)
dsv_read_column_match_minimal_only(cfg, src, r0) ==
    IF r0.res.ok /\ cfg.quote # "Minimal"
    THEN read_unquoted_column(cfg, src, r0.st, r0.res)
    ELSE IF r0.res.ok /\ cfg.quote_char = r0.res.val
    THEN read_quoted_column(cfg, src, r0.st)
    ELSE read_unquoted_column(cfg, src, r0.st, r0.res)

(* A faulty read_column: the quoting policy is not looked at *)
dsv_read_column_match_policy_ignored(cfg, src, r0) ==
    IF r0.res.ok /\ cfg.quote_char = r0.res.val
    THEN read_quoted_column(cfg, src, r0.st)
    ELSE read_unquoted_column(cfg, src, r0.st, r0.res)

(* the match of read_column on the first character read, r0 *)
dsv_read_column_match(cfg, src, r0) ==
    IF r0.res.ok /\ cfg.quote = "Never"
    THEN read_unquoted_column(cfg, src, r0.st, r0.res)
    ELSE IF r0.res.ok /\ cfg.quote_char = r0.res.val
    THEN read_quoted_column(cfg, src, r0.st)
    ELSE read_unquoted_column(cfg, src, r0.st, r0.res)

dsv_read_column(cfg, src, c) ==
    With(dsv_read_column_match(cfg, src, dsv_read_char(src, c)), LAMBDA r :
    IF r.res.ok THEN [st |-> [r.st EXCEPT !.column = @ + 1], res |-> r.res] ELSE r)

(* A faulty Columns::next: the test for a blank line is left out, and a    *)
(* line holding only the terminator comes back as one empty field.         *)
dsv_Columns_next_no_blank_skip(cfg, src, c) ==
    IF c.row_done
    THEN [st |-> c, res |-> None]
    ELSE With(dsv_read_column(cfg, src, c), LAMBDA r :
         IF ~r.res.ok
         THEN IF r.st.pos = 0 /\ r.res.err.kind = "EndOfFile"
              THEN [st |-> [r.st EXCEPT !.row_done = TRUE, !.done = TRUE], res |-> None]
              ELSE [st |-> [r.st EXCEPT !.row_done = TRUE], res |-> Some(r.res)]
         ELSE [st |-> r.st, res |-> Some(r.res)])

(* A faulty Columns::next: an end of file ends the row wherever it comes   *)
(* (the test pos == 0 is left out).                                        *)
RECURSIVE dsv_Columns_next_eof_ends_row(_, _, _)
dsv_Columns_next_eof_ends_row(cfg, src, c) ==
    IF c.row_done
    THEN [st |-> c, res |-> None]
    ELSE With(dsv_read_column(cfg, src, c), LAMBDA r :
         IF ~r.res.ok
         THEN IF r.res.err.kind = "EndOfFile"
              THEN [st |-> [r.st EXCEPT !.row_done = TRUE, !.done = TRUE], res |-> None]
              ELSE [st |-> [r.st EXCEPT !.row_done = TRUE], res |-> Some(r.res)]
         ELSE IF r.st.row_done /\ ~r.st.allow_empty
                 /\ r.st.pos = StrLen(as_str(cfg.line_terminator))
              THEN dsv_Columns_next_eof_ends_row(cfg, src, r.st)
              ELSE [st |-> r.st, res |-> Some(r.res)])

(* Iterator::next of dsv::Columns: res is an Option<IoResult<String>> *)
RECURSIVE dsv_Columns_next(_, _, _)
dsv_Columns_next(cfg, src, c) ==
    IF c.row_done
    THEN [st |-> c, res |-> None]
    ELSE With(dsv_read_column(cfg, src, c), LAMBDA r :
         IF ~r.res.ok
         THEN IF r.st.pos = 0 /\ r.res.err.kind = "EndOfFile"
              THEN [st |-> [r.st EXCEPT !.row_done = TRUE, !.done = TRUE], res |-> None]
              ELSE [st |-> [r.st EXCEPT !.row_done = TRUE], res |-> Some(r.res)]
         ELSE IF r.st.row_done /\ ~r.st.allow_empty
                 /\ r.st.pos = StrLen(as_str(cfg.line_terminator))
              THEN dsv_Columns_next(cfg, src, r.st)
              ELSE [st |-> r.st, res |-> Some(r.res)])

(* the loop `for col in cols` of dsv::read_row: the row collected, or the  *)
(* first error                                                             *)
RECURSIVE dsv_collect(_, _, _, _)
dsv_collect(cfg, src, c, acc) ==
    With(dsv_Columns_next(cfg, src, c), LAMBDA n :
    IF n.res = None
    THEN [st |-> n.st, res |-> Ok(acc)]
    ELSE IF n.res[1].ok
    THEN dsv_collect(cfg, src, n.st, Append(acc, n.res[1].val))
    ELSE [st |-> n.st, res |-> n.res[1]])

(* dsv::read_row on the reader at position rd: the position it leaves the  *)
(* reader at, its result, and the positions of the reader at which it      *)
(* called itself again after a row without a field (retries)               *)
RECURSIVE dsv_read_row(_, _, _)
dsv_read_row(cfg, src, rd) ==
    With(dsv_collect(cfg, src, dsv_Columns(rd), <<>>), LAMBDA r :
    IF r.res.ok /\ Len(r.res.val) = 0 /\ ~r.st.done
    THEN With(dsv_read_row(cfg, src, r.st.reader), LAMBDA n :
         [n EXCEPT !.retries = <<r.st.reader>> \o @])
    ELSE [reader |-> r.st.reader, res |-> r.res, retries |-> <<>>])

(* A faulty Rows::next: an error ends the sequence (None) and done is left *)
(* unset.                                                                  *)
dsv_Rows_next_error_ends(cfg, src, it) ==
    IF it.done
    THEN [it |-> it, res |-> None]
    ELSE With(dsv_read_row(cfg, src, it.reader), LAMBDA r :
         IF r.res.ok
         THEN IF Len(r.res.val) = 0
              THEN [it |-> [reader |-> r.reader, done |-> TRUE], res |-> None]
              ELSE [it |-> [reader |-> r.reader, done |-> FALSE], res |-> Some(r.res)]
         ELSE [it |-> [reader |-> r.reader, done |-> FALSE], res |-> None])

(* Iterator::next of dsv::Rows on the iterator [reader, done] *)
dsv_Rows_next(cfg, src, it) ==
    IF it.done
    THEN [it |-> it, res |-> None]
    ELSE With(dsv_read_row(cfg, src, it.reader), LAMBDA r :
         IF r.res.ok
         THEN IF Len(r.res.val) = 0
              THEN [it |-> [reader |-> r.reader, done |-> TRUE], res |-> None]
              ELSE [it |-> [reader |-> r.reader, done |-> FALSE], res |-> Some(r.res)]
         ELSE [it |-> [reader |-> r.reader, done |-> TRUE], res |-> Some(r.res)])

(* read_rows(config, reader).take(n).collect(): what the first n calls to *)
(* Rows::next return                                                       *)
RECURSIVE dsv_Rows_take(_, _, _, _)
dsv_Rows_take(cfg, src, it, n) ==
    IF n = 0
    THEN <<>>
    ELSE With(dsv_Rows_next(cfg, src, it), LAMBDA r :
         <<r.res>> \o dsv_Rows_take(cfg, src, r.it, n - 1))

----------------------------------------------------------------------------
(* The DSV writer.  Every function returns the sink's contents (writer)    *)
(* and its result (res).  The sink is an in-memory writer: it never fails. *)

(* A faulty is_quote_required: only the delimiter asks for quotes *)
is_quote_required_delimiter_only(cfg, c) ==
    IF cfg.quote = "Always"
    THEN TRUE
    ELSE \E i \in 1..Len(c) : c[i] = cfg.delimiter

(* A faulty is_quote_required: any character of the line terminator asks   *)
(* for quotes, not only its first.                                         *)
is_quote_required_any_terminator_char(cfg, c) ==
    IF cfg.quote = "Always"
    THEN TRUE
    ELSE \E i \in 1..Len(c) :
            \/ c[i] = cfg.delimiter
            \/ \E j \in 1..Len(as_str(cfg.line_terminator)) :
                  c[i] = as_str(cfg.line_terminator)[j]

is_quote_required(cfg, c) ==
    IF cfg.quote = "Always"
    THEN TRUE
    ELSE \E i \in 1..Len(c) :
            c[i] = cfg.delimiter \/ is_beginning(cfg.line_terminator, c[i])

(* A faulty loop of write_column: a quote character inside the field is    *)
(* written as it is, without the escape before it.                         *)
RECURSIVE dsv_write_quoted_chars_no_escape(_, _, _)
dsv_write_quoted_chars_no_escape(cfg, w, c) ==
    IF c = <<>>
    THEN [writer |-> Append(w, cfg.quote_char), res |-> Ok(<<>>)]
    ELSE IF Head(c) = cfg.quote_char
    THEN IF escape_char(cfg) # None
         THEN dsv_write_quoted_chars_no_escape(cfg, Append(w, Head(c)), Tail(c))
         ELSE [writer |-> w, res |-> Err(ESCAPE_DISALLOWED)]
    ELSE IF Some(Head(c)) = escape_char(cfg)
    THEN [writer |-> w, res |-> Err(ESCAPE_CHAR_IN_QUOTE)]
    ELSE dsv_write_quoted_chars_no_escape(cfg, Append(w, Head(c)), Tail(c))

(* A faulty loop of write_column: the character that cannot be written is  *)
(* sent to the sink before the failure is returned.                        *)
RECURSIVE dsv_write_quoted_chars_writes_offender(_, _, _)
dsv_write_quoted_chars_writes_offender(cfg, w, c) ==
    IF c = <<>>
    THEN [writer |-> Append(w, cfg.quote_char), res |-> Ok(<<>>)]
    ELSE IF Head(c) = cfg.quote_char
    THEN IF escape_char(cfg) # None
         THEN dsv_write_quoted_chars_writes_offender(
                  cfg, Append(Append(w, escape_char(cfg)[1]), Head(c)), Tail(c))
         ELSE [writer |-> Append(w, Head(c)), res |-> Err(ESCAPE_DISALLOWED)]
    ELSE IF Some(Head(c)) = escape_char(cfg)
    THEN [writer |-> Append(w, Head(c)), res |-> Err(ESCAPE_CHAR_IN_QUOTE)]
    ELSE dsv_write_quoted_chars_writes_offender(cfg, Append(w, Head(c)), Tail(c))

(* the loop `for ch in col.chars()` of dsv::write_column and the closing   *)
(* quote after it                                                          *)
RECURSIVE dsv_write_quoted_chars(_, _, _)
dsv_write_quoted_chars(cfg, w, c) ==
    IF c = <<>>
    THEN [writer |-> Append(w, cfg.quote_char), res |-> Ok(<<>>)]
    ELSE IF Head(c) = cfg.quote_char
    THEN IF escape_char(cfg) # None
         THEN dsv_write_quoted_chars(
                  cfg, Append(Append(w, escape_char(cfg)[1]), Head(c)), Tail(c))
         ELSE [writer |-> w, res |-> Err(ESCAPE_DISALLOWED)]
    ELSE IF Some(Head(c)) = escape_char(cfg)
    THEN [writer |-> w, res |-> Err(ESCAPE_CHAR_IN_QUOTE)]
    ELSE dsv_write_quoted_chars(cfg, Append(w, Head(c)), Tail(c))

(* A faulty write_column: an empty field is written without quotes under   *)
(* every policy.                                                           *)
dsv_write_column_empty_unquoted(cfg, w, c) ==
    IF c # <<>> /\ is_quote_required(cfg, c)
    THEN IF cfg.quote = "Never"
         THEN [writer |-> w, res |-> Err(MUST_QUOTE)]
         ELSE dsv_write_quoted_chars(cfg, Append(w, cfg.quote_char), c)
    ELSE [writer |-> w \o c, res |-> Ok(<<>>)]

dsv_write_column(cfg, w, c) ==
    IF is_quote_required(cfg, c)
    THEN IF cfg.quote = "Never"
         THEN [writer |-> w, res |-> Err(MUST_QUOTE)]
         ELSE dsv_write_quoted_chars(cfg, Append(w, cfg.quote_char), c)
    ELSE [writer |-> w \o c, res |-> Ok(<<>>)]

(* A faulty loop of write_row: the delimiter is written before every     *)
(* field, the first one too.                                               *)
RECURSIVE dsv_write_columns_leading_delimiter(_, _, _, _)
dsv_write_columns_leading_delimiter(cfg, w, row, first) ==
    IF row = <<>>
    THEN [writer |-> w, res |-> Ok(<<>>)]
    ELSE With(dsv_write_column(cfg, Append(w, cfg.delimiter), Head(row)), LAMBDA r :
         IF r.res.ok
         THEN dsv_write_columns_leading_delimiter(cfg, r.writer, Tail(row), FALSE)
         ELSE r)

(* the loop `for col in row.iter()` of dsv::write_row *)
RECURSIVE dsv_write_columns(_, _, _, _)
dsv_write_columns(cfg, w, row, first) ==
    IF row = <<>>
    THEN [writer |-> w, res |-> Ok(<<>>)]
    ELSE With(dsv_write_column(cfg, IF first THEN w ELSE Append(w, cfg.delimiter),
                               Head(row)), LAMBDA r :
         IF r.res.ok THEN dsv_write_columns(cfg, r.writer, Tail(row), FALSE) ELSE r)

dsv_write_row(cfg, w, row) ==
    With(dsv_write_columns(cfg, w, row, TRUE), LAMBDA r :
    IF r.res.ok
    THEN [writer |-> r.writer \o as_str(cfg.line_terminator), res |-> Ok(<<>>)]
    ELSE r)

RECURSIVE dsv_write_rows(_, _, _)
dsv_write_rows(cfg, w, rs) ==
    IF rs = <<>>
    THEN [writer |-> w, res |-> Ok(<<>>)]
    ELSE With(dsv_write_row(cfg, w, Head(rs)), LAMBDA r :
         IF r.res.ok THEN dsv_write_rows(cfg, r.writer, Tail(rs)) ELSE r)

----------------------------------------------------------------------------
(* fixed::Config is [columns, line_end]; a ColumnConfig is                 *)
(* [width, pad_with, justification]; a LineEnding is Nothing,              *)
(* FixedWidth(w) or Newline(lt).                                           *)

Nothing == <<"Nothing">>
FixedWidth(w) == <<"FixedWidth", w>>
Newline(lt) == <<"Newline", lt>>

COLUMN_TOO_LONG == [kind |-> "InvalidInput", desc |-> "Column too long"]
ROW_TOO_LONG == [kind |-> "InvalidInput", desc |-> "Column too long"]

(* A task failure (fail!), which unwinds through every caller: what an     *)
(* index out of bounds ends in.  It stands where the call's value would:   *)
(* no IoError has its kind.                                                *)
TaskFailure == [ok |-> FALSE, err |-> [kind |-> "TaskFailure", desc |-> "index out of bounds"]]

(* The largest uint.  The model's integers end at 2^31 - 1, the program's  *)
(* at 2^64 - 1: either is larger than every text read here.                *)
UINT_MAX == 2147483647

(* a - b on uint, which wraps around below zero *)
uint_sub(a, b) == IF a >= b THEN a - b ELSE (UINT_MAX - (b - a)) + 1

RECURSIVE trim_right_chars(_, _)
trim_right_chars(s, pad) ==
    IF s # <<>> /\ s[Len(s)] = pad
    THEN trim_right_chars(SubSeq(s, 1, Len(s) - 1), pad)
    ELSE s

RECURSIVE trim_left_chars(_, _)
trim_left_chars(s, pad) ==
    IF s # <<>> /\ Head(s) = pad THEN trim_left_chars(Tail(s), pad) ELSE s

(* fixed::Columns: the record [reader, column, pos, done] *)
fixed_Columns(rd) == [reader |-> rd, column |-> 0, pos |-> 0, done |-> FALSE]

(* pos counts the calls, also the one that finds the source at its end *)
fixed_read_char(src, c) ==
    IF c.reader < Len(src)
    THEN [st |-> [c EXCEPT !.reader = @ + 1, !.pos = @ + 1],
          res |-> Ok(src[c.reader + 1])]
    ELSE [st |-> [c EXCEPT !.pos = @ + 1], res |-> Err(EOF_ERROR)]

(* the loop of read_str: len characters still to read, acc read so far *)
RECURSIVE read_str_loop(_, _, _, _)
read_str_loop(src, c, len, acc) ==
    IF len = 0
    THEN [st |-> c, res |-> Ok(acc)]
    ELSE With(fixed_read_char(src, c), LAMBDA r :
         IF r.res.ok
         THEN read_str_loop(src, r.st, len - 1, Append(acc, r.res.val))
         ELSE [st |-> r.st, res |-> r.res])

read_str(src, c, len) == read_str_loop(src, c, len, <<>>)

fixed_read_column(src, c, colcfg) ==
    With(read_str(src, c, colcfg.width), LAMBDA r :
    IF r.res.ok
    THEN [st |-> r.st,
          res |-> Ok(IF colcfg.justification = "Left"
                     THEN trim_right_chars(r.res.val, colcfg.pad_with)
                     ELSE trim_left_chars(r.res.val, colcfg.pad_with))]
    ELSE r)

(* A faulty loop of read_newline: the end of the source is taken as the    *)
(* end of the row at any character of the terminator, not only the first.  *)
RECURSIVE read_newline_loop_any_eof(_, _, _, _)
read_newline_loop_any_eof(lt, src, c, curr_pos) ==
    IF lt = <<>>
    THEN [st |-> c, res |-> Ok(<<>>)]
    ELSE With(fixed_read_char(src, c), LAMBDA r :
         IF r.res.ok
         THEN IF r.res.val = Head(lt)
              THEN read_newline_loop_any_eof(Tail(lt), src, r.st, curr_pos)
              ELSE [st |-> r.st, res |-> Err(INVALID_LINE_ENDING)]
         ELSE IF r.res.err.kind = "EndOfFile"
              THEN [st |-> r.st, res |-> Ok(<<>>)]
              ELSE [st |-> r.st, res |-> r.res])

(* the loop of read_newline over the characters lt still expected *)
RECURSIVE read_newline_loop(_, _, _, _)
read_newline_loop(lt, src, c, curr_pos) ==
    IF lt = <<>>
    THEN [st |-> c, res |-> Ok(<<>>)]
    ELSE With(fixed_read_char(src, c), LAMBDA r :
         IF r.res.ok
         THEN IF r.res.val = Head(lt)
              THEN read_newline_loop(Tail(lt), src, r.st, curr_pos)
              ELSE [st |-> r.st, res |-> Err(INVALID_LINE_ENDING)]
         ELSE IF r.res.err.kind = "EndOfFile" /\ curr_pos + 1 = r.st.pos
              THEN [st |-> r.st, res |-> Ok(<<>>)]
              ELSE [st |-> r.st, res |-> r.res])

read_newline(src, c, lt) == read_newline_loop(as_str(lt), src, c, c.pos)

read_fixed_width(src, c, width) ==
    With(read_str(src, c, uint_sub(width, c.pos)), LAMBDA r :
    IF r.res.ok THEN [st |-> r.st, res |-> Ok(<<>>)] ELSE r)

read_line_ending(cfg, src, c) ==
    CASE cfg.line_end = Nothing -> [st |-> c, res |-> Ok(<<>>)]
      [] cfg.line_end[1] = "FixedWidth" -> read_fixed_width(src, c, cfg.line_end[2])
      [] cfg.line_end[1] = "Newline" -> read_newline(src, c, cfg.line_end[2])

(* Columns::next after read_column returned r (self.column already        *)
(* incremented): the line ending after the last column, and the value     *)
(* yielded                                                                 *)
fixed_Columns_next_end(cfg, src, c, column) ==
    IF column = Len(cfg.columns)
    THEN With(read_line_ending(cfg, src, c.st), LAMBDA e :
         IF e.res.ok
         THEN [st |-> [e.st EXCEPT !.done = (column >= Len(cfg.columns))],
               res |-> Some(c.res)]
         ELSE [st |-> [e.st EXCEPT !.done = TRUE], res |-> Some(e.res)])
    ELSE [st |-> [c.st EXCEPT !.done = (column >= Len(cfg.columns))],
          res |-> Some(c.res)]

(* Iterator::next of fixed::Columns *)
fixed_Columns_next(cfg, src, c) ==
    IF c.done
    THEN [st |-> c, res |-> None]
    ELSE IF c.column >= Len(cfg.columns)
    THEN [st |-> c, res |-> Some(TaskFailure)]
    ELSE With(fixed_read_column(src, [c EXCEPT !.column = @ + 1],
                                cfg.columns[c.column + 1]), LAMBDA r :
         IF ~r.res.ok /\ r.res.err.kind = "EndOfFile" /\ r.st.pos = 1
         THEN [st |-> [r.st EXCEPT !.done = TRUE], res |-> None]
         ELSE fixed_Columns_next_end(
                  cfg, src,
                  [st |-> IF r.res.ok THEN r.st ELSE [r.st EXCEPT !.done = TRUE],
                   res |-> r.res],
                  c.column + 1))

(* the loop `for col in cols` of fixed::read_row *)
RECURSIVE fixed_collect(_, _, _, _)
fixed_collect(cfg, src, c, acc) ==
    With(fixed_Columns_next(cfg, src, c), LAMBDA n :
    IF n.res = None
    THEN [reader |-> n.st.reader, res |-> Ok(acc)]
    ELSE IF n.res[1].ok
    THEN fixed_collect(cfg, src, n.st, Append(acc, n.res[1].val))
    ELSE [reader |-> n.st.reader, res |-> n.res[1]])

fixed_read_row(cfg, src, rd) == fixed_collect(cfg, src, fixed_Columns(rd), <<>>)

(* A faulty Rows::next: done is left unset when read_row fails *)
fixed_Rows_next_error_not_final(cfg, src, it) ==
    IF it.done
    THEN [it |-> it, res |-> None]
    ELSE With(fixed_read_row(cfg, src, it.reader), LAMBDA r :
         IF r.res = TaskFailure
         THEN [it |-> [reader |-> r.reader, done |-> it.done], res |-> Some(TaskFailure)]
         ELSE IF r.res.ok
         THEN IF Len(r.res.val) = 0
              THEN [it |-> [reader |-> r.reader, done |-> TRUE], res |-> None]
              ELSE [it |-> [reader |-> r.reader, done |-> FALSE], res |-> Some(r.res)]
         ELSE [it |-> [reader |-> r.reader, done |-> FALSE], res |-> Some(r.res)])

(* Iterator::next of fixed::Rows on the iterator [reader, done] *)
fixed_Rows_next(cfg, src, it) ==
    IF it.done
    THEN [it |-> it, res |-> None]
    ELSE With(fixed_read_row(cfg, src, it.reader), LAMBDA r :
         IF r.res = TaskFailure
         THEN [it |-> [reader |-> r.reader, done |-> it.done], res |-> Some(TaskFailure)]
         ELSE IF r.res.ok
         THEN IF Len(r.res.val) = 0
              THEN [it |-> [reader |-> r.reader, done |-> TRUE], res |-> None]
              ELSE [it |-> [reader |-> r.reader, done |-> FALSE], res |-> Some(r.res)]
         ELSE [it |-> [reader |-> r.reader, done |-> TRUE], res |-> Some(r.res)])

----------------------------------------------------------------------------
(* The fixed-width writer *)

(* A faulty write_column: the field is written before its length is       *)
(* looked at.                                                              *)
fixed_write_column_late_check(colcfg, w, c) ==
    IF StrLen(c) > colcfg.width
    THEN [writer |-> w \o c, res |-> Err(COLUMN_TOO_LONG)]
    ELSE IF colcfg.justification = "Left"
    THEN [writer |-> w \o c \o Repeat(colcfg.pad_with, colcfg.width - StrLen(c)),
          res |-> Ok(<<>>)]
    ELSE [writer |-> w \o Repeat(colcfg.pad_with, colcfg.width - StrLen(c)) \o c,
          res |-> Ok(<<>>)]

fixed_write_column(colcfg, w, c) ==
    IF StrLen(c) > colcfg.width
    THEN [writer |-> w, res |-> Err(COLUMN_TOO_LONG)]
    ELSE IF colcfg.justification = "Left"
    THEN [writer |-> w \o c \o Repeat(colcfg.pad_with, colcfg.width - StrLen(c)),
          res |-> Ok(<<>>)]
    ELSE [writer |-> w \o Repeat(colcfg.pad_with, colcfg.width - StrLen(c)) \o c,
          res |-> Ok(<<>>)]

(* the loop `for (col, cfg) in row.iter().zip(config.columns.iter())` of   *)
(* fixed::write_row: res is Ok(written) or the first error                 *)
RECURSIVE fixed_write_columns(_, _, _, _)
fixed_write_columns(columns, w, row, written) ==
    IF row = <<>> \/ columns = <<>>
    THEN [writer |-> w, res |-> Ok(written)]
    ELSE With(fixed_write_column(Head(columns), w, Head(row)), LAMBDA r :
         IF r.res.ok
         THEN fixed_write_columns(Tail(columns), r.writer, Tail(row),
                                  written + Head(columns).width)
         ELSE r)

(* A faulty write_row: the widths are compared with the row width before   *)
(* the columns are written.                                                *)
fixed_write_row_early_check(cfg, w, row) ==
    With(fixed_write_columns(cfg.columns, w, row, 0), LAMBDA r :
    IF ~r.res.ok
    THEN r
    ELSE CASE cfg.line_end = Nothing -> [writer |-> r.writer, res |-> Ok(<<>>)]
           [] cfg.line_end[1] = "FixedWidth" ->
                IF r.res.val > cfg.line_end[2]
                THEN [writer |-> w, res |-> Err(ROW_TOO_LONG)]
                ELSE [writer |-> r.writer \o Repeat(" ", cfg.line_end[2] - r.res.val),
                      res |-> Ok(<<>>)]
           [] cfg.line_end[1] = "Newline" ->
                [writer |-> r.writer \o as_str(cfg.line_end[2]), res |-> Ok(<<>>)])

fixed_write_row(cfg, w, row) ==
    With(fixed_write_columns(cfg.columns, w, row, 0), LAMBDA r :
    IF ~r.res.ok
    THEN r
    ELSE CASE cfg.line_end = Nothing -> [writer |-> r.writer, res |-> Ok(<<>>)]
           [] cfg.line_end[1] = "FixedWidth" ->
                IF r.res.val > cfg.line_end[2]
                THEN [writer |-> r.writer, res |-> Err(ROW_TOO_LONG)]
                ELSE [writer |-> r.writer \o Repeat(" ", cfg.line_end[2] - r.res.val),
                      res |-> Ok(<<>>)]
           [] cfg.line_end[1] = "Newline" ->
                [writer |-> r.writer \o as_str(cfg.line_end[2]), res |-> Ok(<<>>)])

RECURSIVE fixed_write_rows(_, _, _)
fixed_write_rows(cfg, w, rs) ==
    IF rs = <<>>
    THEN [writer |-> w, res |-> Ok(<<>>)]
    ELSE With(fixed_write_row(cfg, w, Head(rs)), LAMBDA r :
         IF r.res.ok THEN fixed_write_rows(cfg, r.writer, Tail(rs)) ELSE r)

----------------------------------------------------------------------------
(* Bounds and the inputs drawn within them *)

MaxSrcLen == 4      \* the longest source text a reading run starts from
MaxColLen == 3      \* the longest field handed to write_column
MaxRowTokens == 4   \* the size of the rows handed to write_rows
MaxCalls == 5       \* the calls to Rows::next in one run
MaxWidth == 2       \* the widest fixed-width column

SeqsUpTo(S, n) == UNION {[1..k -> S] : k \in 0..n}

(* The rows written are drawn as token strings: a character extends the    *)
(* current field, "FS" ends the field, "RS" ends the row; what is left     *)
(* open at the end is closed.                                              *)
RECURSIVE DecodeRows(_, _, _, _)
DecodeRows(t, rs, row, fld) ==
    IF t = <<>>
    THEN IF fld # <<>> THEN Append(rs, Append(row, fld))
         ELSE IF row # <<>> THEN Append(rs, row) ELSE rs
    ELSE IF Head(t) = "FS"
    THEN DecodeRows(Tail(t), rs, Append(row, fld), <<>>)
    ELSE IF Head(t) = "RS"
    THEN DecodeRows(Tail(t), Append(rs, IF fld # <<>> THEN Append(row, fld) ELSE row),
                    <<>>, <<>>)
    ELSE DecodeRows(Tail(t), rs, row, Append(fld, Head(t)))

RowSeqs(S, n) == {DecodeRows(t, <<>>, <<>>, <<>>) : t \in SeqsUpTo(S \cup {"FS", "RS"}, n)}

Range(s) == {s[i] : i \in 1..Len(s)}

(* the characters that mean something to a config, and one that does not *)
DsvAlphabet(cfg) ==
    {"a", cfg.delimiter, cfg.quote_char} \cup Range(as_str(cfg.line_terminator))
        \cup (IF cfg.escape \in {Double, Disallowed} THEN {} ELSE {cfg.escape[2]})

DsvReadConfigs ==
    {[CSV EXCEPT !.line_terminator = lt] : lt \in LineTerminators}
        \cup {TSV, [CSV EXCEPT !.quote = "Never"], [CSV EXCEPT !.escape = Char("~")],
              [CSV EXCEPT !.escape = Char("\"")]}

DsvWriteConfigs ==
    {CSV, TSV,
     [CSV EXCEPT !.quote = "Never", !.line_terminator = "LF"],
     [CSV EXCEPT !.quote = "Always"],
     [CSV EXCEPT !.quote = "Always", !.line_terminator = "NEL"],
     [CSV EXCEPT !.line_terminator = "NEL"],
     [CSV EXCEPT !.escape = Disallowed],
     [CSV EXCEPT !.escape = Char("~"), !.quote = "Always"],
     [CSV EXCEPT !.escape = Char("\"")]}

(* Fixed-width columns: right-justified and padded with spaces, or       *)
(* left-justified and padded with "#"                                      *)
FixedColumns ==
    {[width |-> w, pad_with |-> " ", justification |-> "Right"] : w \in 0..MaxWidth}
        \cup {[width |-> w, pad_with |-> "#", justification |-> "Left"] : w \in 0..MaxWidth}

FixedLineEndings ==
    {Nothing, Newline("LF"), Newline("CRLF")} \cup {FixedWidth(w) : w \in 1..(MaxWidth + 1)}

(* no column, one column, or a right-justified column and a               *)
(* left-justified one                                                      *)
FixedColumnLists ==
    {<<>>} \cup {<<c>> : c \in FixedColumns}
        \cup {<<c, d>> : c \in {x \in FixedColumns : x.justification = "Right"},
                         d \in {x \in FixedColumns : x.justification = "Left"}}

FixedConfigs ==
    {[columns |-> cs, line_end |-> le] : cs \in FixedColumnLists, le \in FixedLineEndings}

FixedAlphabet(cfg) ==
    {"a"} \cup {cfg.columns[i].pad_with : i \in 1..Len(cfg.columns)}
        \cup (IF cfg.line_end[1] = "Newline" THEN Range(as_str(cfg.line_end[2])) ELSE {})

----------------------------------------------------------------------------
(* The runs.  pc says where the run is: "call" (a write call is about to   *)
(* be made), "written" (it returned), "source" (a source text exists and   *)
(* no Rows iterator yet), "rows" (a Rows iterator exists).                 *)

IsDsv == session \in {"dsv::read_rows", "dsv::write_column", "dsv::write_rows"}

InitDsvRead ==
    /\ session = "dsv::read_rows"
    /\ config \in DsvReadConfigs
    /\ source \in SeqsUpTo(DsvAlphabet(config), MaxSrcLen)
    /\ pc = "source"
    /\ col = <<>> /\ rows = <<>> /\ writer = <<>> /\ wres = None
    /\ reader = 0 /\ done = FALSE /\ returned = <<>>

InitDsvWriteColumn ==
    /\ session = "dsv::write_column"
    /\ config \in DsvWriteConfigs
    /\ col \in SeqsUpTo(DsvAlphabet(config), MaxColLen)
    /\ pc = "call"
    /\ rows = <<>> /\ writer = <<>> /\ wres = None
    /\ source = <<>> /\ reader = 0 /\ done = FALSE /\ returned = <<>>

InitDsvWriteRows ==
    /\ session = "dsv::write_rows"
    /\ config \in DsvWriteConfigs
    /\ rows \in RowSeqs(DsvAlphabet(config), MaxRowTokens)
    /\ pc = "call"
    /\ col = <<>> /\ writer = <<>> /\ wres = None
    /\ source = <<>> /\ reader = 0 /\ done = FALSE /\ returned = <<>>

(* dsv::write_column(config, &mut writer, col) *)
DsvWriteColumn ==
    /\ session = "dsv::write_column" /\ pc = "call"
    /\ With(dsv_write_column(config, writer, col), LAMBDA r :
          /\ writer' = r.writer
          /\ wres' = Some(r.res))
    /\ pc' = "written"
    /\ UNCHANGED <<session, config, col, rows, source, reader, done, returned>>

(* dsv::write_rows(config, &mut writer, rows.into_iter()) *)
DsvWriteRows ==
    /\ session = "dsv::write_rows" /\ pc = "call"
    /\ With(dsv_write_rows(config, writer, rows), LAMBDA r :
          /\ writer' = r.writer
          /\ wres' = Some(r.res))
    /\ pc' = "written"
    /\ UNCHANGED <<session, config, col, rows, source, reader, done, returned>>

(* dsv::from_str(config, s) on the text written: a reader over s, and      *)
(* read_rows on it                                                         *)
DsvFromStr ==
    /\ IsDsv /\ pc = "written" /\ wres[1].ok
    /\ source' = writer
    /\ reader' = 0
    /\ done' = FALSE
    /\ pc' = "rows"
    /\ UNCHANGED <<session, config, col, rows, writer, wres, returned>>

(* dsv::read_rows(config, reader) *)
DsvReadRows ==
    /\ session = "dsv::read_rows" /\ pc = "source"
    /\ done' = FALSE
    /\ pc' = "rows"
    /\ UNCHANGED <<session, config, col, rows, writer, wres, source, reader, returned>>

(* one call to Iterator::next of dsv::Rows *)
DsvRowsNext ==
    /\ IsDsv /\ pc = "rows"
    /\ Len(returned) < MaxCalls
    /\ With(dsv_Rows_next(config, source, [reader |-> reader, done |-> done]), LAMBDA r :
          /\ reader' = r.it.reader
          /\ done' = r.it.done
          /\ returned' = Append(returned, r.res))
    /\ UNCHANGED <<session, config, col, rows, writer, wres, source, pc>>

NextDsvRead == DsvReadRows \/ DsvRowsNext
SpecDsvRead == InitDsvRead /\ [][NextDsvRead]_vars

(* a call can be made: the enabling condition of NextDsvRead *)
DsvCanStep ==
    /\ session = "dsv::read_rows"
    /\ pc = "source" \/ (pc = "rows" /\ Len(returned) < MaxCalls)

(* The consumer of a row stream keeps calling next(): weak fairness of     *)
(* NextDsvRead, stated with its enabling condition (no run stays for ever  *)
(* where a call can be made).                                              *)
SpecDsvReadFair == SpecDsvRead /\ []<>(~DsvCanStep)

InitDsvWrite == InitDsvWriteColumn \/ InitDsvWriteRows
NextDsvWrite == DsvWriteColumn \/ DsvWriteRows \/ DsvFromStr \/ DsvRowsNext
SpecDsvWrite == InitDsvWrite /\ [][NextDsvWrite]_vars

----------------------------------------------------------------------------
(* The fixed-width runs *)

IsFixed == session \in {"fixed::read_rows", "fixed::write_column", "fixed::write_rows"}

InitFixedRead ==
    /\ session = "fixed::read_rows"
    /\ config \in FixedConfigs
    /\ source \in SeqsUpTo(FixedAlphabet(config), MaxSrcLen)
    /\ pc = "source"
    /\ col = <<>> /\ rows = <<>> /\ writer = <<>> /\ wres = None
    /\ reader = 0 /\ done = FALSE /\ returned = <<>>

(* write_column is handed the one column of config *)
InitFixedWriteColumn ==
    /\ session = "fixed::write_column"
    /\ config \in {[columns |-> <<c>>, line_end |-> Nothing] : c \in FixedColumns}
    /\ col \in SeqsUpTo({"a", " ", "#", "U00E9"}, MaxColLen)
    /\ pc = "call"
    /\ rows = <<>> /\ writer = <<>> /\ wres = None
    /\ source = <<>> /\ reader = 0 /\ done = FALSE /\ returned = <<>>

InitFixedWriteRows ==
    /\ session = "fixed::write_rows"
    /\ config \in FixedConfigs
    /\ rows \in RowSeqs({"a", "U00E9"}, MaxRowTokens)
    /\ pc = "call"
    /\ col = <<>> /\ writer = <<>> /\ wres = None
    /\ source = <<>> /\ reader = 0 /\ done = FALSE /\ returned = <<>>

(* fixed::write_column(&config, &mut writer, col) *)
FixedWriteColumn ==
    /\ session = "fixed::write_column" /\ pc = "call"
    /\ With(fixed_write_column(config.columns[1], writer, col), LAMBDA r :
          /\ writer' = r.writer
          /\ wres' = Some(r.res))
    /\ pc' = "written"
    /\ UNCHANGED <<session, config, col, rows, source, reader, done, returned>>

(* fixed::write_rows(config, &mut writer, rows.move_iter()) *)
FixedWriteRows ==
    /\ session = "fixed::write_rows" /\ pc = "call"
    /\ With(fixed_write_rows(config, writer, rows), LAMBDA r :
          /\ writer' = r.writer
          /\ wres' = Some(r.res))
    /\ pc' = "written"
    /\ UNCHANGED <<session, config, col, rows, source, reader, done, returned>>

(* fixed::from_str(config, s) on the text written *)
FixedFromStr ==
    /\ IsFixed /\ pc = "written" /\ wres[1].ok
    /\ source' = writer
    /\ reader' = 0
    /\ done' = FALSE
    /\ pc' = "rows"
    /\ UNCHANGED <<session, config, col, rows, writer, wres, returned>>

(* fixed::read_rows(config, reader) *)
FixedReadRows ==
    /\ session = "fixed::read_rows" /\ pc = "source"
    /\ done' = FALSE
    /\ pc' = "rows"
    /\ UNCHANGED <<session, config, col, rows, writer, wres, source, reader, returned>>

(* one call to Iterator::next of fixed::Rows; after a task failure there   *)
(* is no caller left to make one                                           *)
FixedRowsNext ==
    /\ IsFixed /\ pc = "rows"
    /\ Len(returned) < MaxCalls
    /\ (IF returned = <<>> THEN TRUE ELSE returned[Len(returned)] # Some(TaskFailure))
    /\ With(fixed_Rows_next(config, source, [reader |-> reader, done |-> done]), LAMBDA r :
          /\ reader' = r.it.reader
          /\ done' = r.it.done
          /\ returned' = Append(returned, r.res))
    /\ UNCHANGED <<session, config, col, rows, writer, wres, source, pc>>

NextFixedRead == FixedReadRows \/ FixedRowsNext
SpecFixedRead == InitFixedRead /\ [][NextFixedRead]_vars

InitFixedWrite == InitFixedWriteColumn \/ InitFixedWriteRows
NextFixedWrite == FixedWriteColumn \/ FixedWriteRows \/ FixedFromStr \/ FixedRowsNext
SpecFixedWrite == InitFixedWrite /\ [][NextFixedWrite]_vars

----------------------------------------------------------------------------
(* Reading with either format *)

InitRead == InitDsvRead \/ InitFixedRead
NextRead == NextDsvRead \/ NextFixedRead
SpecRead == InitRead /\ [][NextRead]_vars

(* Every run *)
Init == InitDsvRead \/ InitDsvWrite \/ InitFixedRead \/ InitFixedWrite
Next ==
    \/ DsvWriteColumn \/ DsvWriteRows \/ DsvFromStr \/ DsvReadRows \/ DsvRowsNext
    \/ FixedWriteColumn \/ FixedWriteRows \/ FixedFromStr \/ FixedReadRows \/ FixedRowsNext
Spec == Init /\ [][Next]_vars

----------------------------------------------------------------------------
(* What the properties are stated with: the lines of a text, the fields of *)
(* a line, and the values Rows::next returned.                             *)

IsRow(x) == x # None /\ x[1].ok

StartsWith(s, t) == Len(s) >= Len(t) /\ SubSeq(s, 1, Len(t)) = t
Drop(s, n) == SubSeq(s, n + 1, Len(s))

(* the lines of s under the terminator text t, in order: a line ends at    *)
(* the terminator or at the end of s; what follows the last terminator is  *)
(* a line when it has a character                                          *)
RECURSIVE LinesOf(_, _, _, _)
LinesOf(s, t, line, acc) ==
    IF s = <<>>
    THEN IF line = <<>> THEN acc ELSE Append(acc, line)
    ELSE IF StartsWith(s, t)
    THEN LinesOf(Drop(s, Len(t)), t, <<>>, Append(acc, line))
    ELSE LinesOf(Tail(s), t, Append(line, Head(s)), acc)

Lines(cfg, s) == LinesOf(s, as_str(cfg.line_terminator), <<>>, <<>>)

(* s is unquoted text: outside its terminators it holds no character of    *)
(* the terminator, and no quote character where quotes are read            *)
Unquoted(cfg, s) ==
    \A i \in 1..Len(Lines(cfg, s)) :
        ~AnyCharIn(Lines(cfg, s)[i],
                   Range(as_str(cfg.line_terminator))
                       \cup (IF cfg.quote = "Never" THEN {} ELSE {cfg.quote_char}))

Count(s, ch) == Cardinality({i \in 1..Len(s) : s[i] = ch})

RECURSIVE Join(_, _)
Join(row, d) ==
    IF row = <<>> THEN <<>>
    ELSE IF Len(row) = 1 THEN row[1]
    ELSE row[1] \o <<d>> \o Join(Tail(row), d)

(* s without its blank lines *)
RECURSIVE StripBlankLines(_, _, _)
StripBlankLines(s, t, at_start) ==
    IF s = <<>>
    THEN <<>>
    ELSE IF StartsWith(s, t)
    THEN IF at_start
         THEN StripBlankLines(Drop(s, Len(t)), t, TRUE)
         ELSE t \o StripBlankLines(Drop(s, Len(t)), t, TRUE)
    ELSE <<Head(s)>> \o StripBlankLines(Tail(s), t, FALSE)

(* s with every character q doubled *)
RECURSIVE Doubled(_, _)
Doubled(s, q) ==
    IF s = <<>> THEN <<>>
    ELSE IF Head(s) = q THEN <<q, q>> \o Doubled(Tail(s), q)
    ELSE <<Head(s)>> \o Doubled(Tail(s), q)

(* the text is made of CRLF sequences only *)
OnlyCRLF(s) ==
    /\ Len(s) % 2 = 0
    /\ \A i \in 1..Len(s) : s[i] = (IF i % 2 = 1 THEN "CR" ELSE "LF")

Last(s) == s[Len(s)]

----------------------------------------------------------------------------
(* C1: under the CSV preset, writing rows with write_rows succeeds, and    *)
(* reading the text written with read_rows returns the same rows in the    *)
(* same order and then None.  Stated for the rows that have a field, the   *)
(* row of one empty field left aside.                                      *)
C1_WriteReadRoundTrip ==
    (/\ session = "dsv::write_rows" /\ config = CSV /\ pc # "call"
     /\ \A i \in 1..Len(rows) : rows[i] # <<>> /\ rows[i] # << <<>> >>)
        => /\ wres = Some(Ok(<<>>))
           /\ \A i \in 1..Len(returned) :
                 returned[i] = (IF i <= Len(rows) THEN Some(Ok(rows[i])) ELSE None)

(* C2: a line with n >= 1 unquoted delimiters is read as a row of n + 1    *)
(* fields, whether the terminator or the end of input ends it.  Stated of  *)
(* the first line of every unquoted text.                                  *)
C2_FieldsPerLine ==
    (/\ session = "dsv::read_rows" /\ returned # <<>>
     /\ Unquoted(config, source)
     /\ Lines(config, source) # <<>>
     /\ Count(Lines(config, source)[1], config.delimiter) >= 1)
        => /\ IsRow(returned[1])
           /\ Len(returned[1][1].val)
                 = Count(Lines(config, source)[1], config.delimiter) + 1

(* C3: every line of unquoted text that has a character is read as one     *)
(* row, whose fields joined by the delimiter are the line.  Stated of the  *)
(* unquoted texts without blank lines: the i-th value returned is the      *)
(* i-th line's row, and None after the last line.                          *)
C3_OneRowPerLine ==
    (/\ session = "dsv::read_rows"
     /\ Unquoted(config, source)
     /\ \A i \in 1..Len(Lines(config, source)) : Lines(config, source)[i] # <<>>)
        => \A i \in 1..Len(returned) :
              IF i <= Len(Lines(config, source))
              THEN /\ IsRow(returned[i])
                   /\ Join(returned[i][1].val, config.delimiter) = Lines(config, source)[i]
              ELSE returned[i] = None

(* C4: a line holding only the terminator produces no row.  On unquoted    *)
(* text, what read_rows returns is what it returns on the text without     *)
(* its blank lines, and no row returned is a row of one empty field.       *)
C4_BlankLinesSkipped ==
    (session = "dsv::read_rows" /\ Unquoted(config, source))
        => /\ returned = dsv_Rows_take(
                             config,
                             StripBlankLines(source, as_str(config.line_terminator), TRUE),
                             [reader |-> 0, done |-> FALSE], Len(returned))
           /\ \A i \in 1..Len(returned) : returned[i] # Some(Ok(<< <<>> >>))

(* C5: under the CSV preset the empty text and a text of CRLF sequences    *)
(* only give no row (every call returns None), and the text of one         *)
(* delimiter and CRLF gives one row of two empty fields, then None.        *)
C5_EmptyInputs ==
    (session = "dsv::read_rows" /\ config = CSV)
        => /\ OnlyCRLF(source) => \A i \in 1..Len(returned) : returned[i] = None
           /\ source = <<",", "CR", "LF">>
                 => \A i \in 1..Len(returned) :
                       returned[i] = (IF i = 1 THEN Some(Ok(<< <<>>, <<>> >>)) ELSE None)

C5_Witness ==
    /\ session = "dsv::read_rows" /\ config = CSV
    /\ source = <<",", "CR", "LF">>
    /\ Len(returned) = 2
    /\ returned[1] = Some(Ok(<< <<>>, <<>> >>))

(* C6: under Double escaping, a field that write_column writes quoted      *)
(* (policy Always, or Minimal and the field holds the delimiter or the     *)
(* terminator's first character) is written as the quote character, the    *)
(* field with its quote characters doubled, and the quote character; and   *)
(* read_rows on that text returns the row of that one field, then None.    *)
C6_DoubledQuotesRoundTrip ==
    (/\ session = "dsv::write_column" /\ pc # "call"
     /\ config.escape = Double
     /\ \/ config.quote = "Always"
        \/ /\ config.quote = "Minimal"
           /\ AnyCharIn(col, {config.delimiter, as_str(config.line_terminator)[1]}))
        => /\ wres = Some(Ok(<<>>))
           /\ writer = <<config.quote_char>> \o Doubled(col, config.quote_char)
                           \o <<config.quote_char>>
           /\ \A i \in 1..Len(returned) :
                 returned[i] = (IF i = 1 THEN Some(Ok(<<col>>)) ELSE None)

C6_Witness ==
    /\ session = "dsv::write_column" /\ config = CSV
    /\ col = <<",", "\"">>
    /\ writer = <<"\"", ",", "\"", "\"", "\"">>
    /\ Len(returned) = 2
    /\ returned[1] = Some(Ok(<<col>>))

(* C7: a field no longer than the width, which does not begin with the     *)
(* pad character (right-justified) or end with it (left-justified), is     *)
(* written by the fixed-width write_column as exactly width characters,    *)
(* the padding opposite the justification, and read_rows with the same     *)
(* column returns the field.                                               *)
C7_PaddedColumnRoundTrip ==
    (/\ session = "fixed::write_column" /\ pc # "call"
     /\ StrLen(col) <= config.columns[1].width
     /\ col # <<>> => (IF config.columns[1].justification = "Right"
                      THEN col[1] ELSE col[Len(col)]) # config.columns[1].pad_with)
        => /\ wres = Some(Ok(<<>>))
           /\ Len(writer) = config.columns[1].width
           /\ writer = (IF config.columns[1].justification = "Right"
                        THEN Repeat(config.columns[1].pad_with,
                                    config.columns[1].width - Len(col)) \o col
                        ELSE col \o Repeat(config.columns[1].pad_with,
                                           config.columns[1].width - Len(col)))
           /\ returned # <<>> => returned[1] = Some(Ok(<<col>>))

(* C8: the fixed-width write_column fails with ColumnTooLong when the      *)
(* field is longer than the column's width, and the sink has received      *)
(* nothing.                                                                *)
C8_ColumnTooLong ==
    (/\ session = "fixed::write_column" /\ pc # "call"
     /\ Len(col) > config.columns[1].width)
        => wres = Some(Err(COLUMN_TOO_LONG)) /\ writer = <<>>

C8_Witness ==
    /\ session = "fixed::write_column" /\ pc = "written"
    /\ config.columns[1].width = 1
    /\ col = <<"a", "a">>
    /\ wres = Some(Err(COLUMN_TOO_LONG))

(* C9: under the quote policy Never, write_column fails with MustQuote     *)
(* and the sink has received nothing when the field holds the delimiter    *)
(* or the first character of the line terminator; otherwise it succeeds    *)
(* and the sink has received the field's characters unchanged.             *)
C9_NeverQuote ==
    (session = "dsv::write_column" /\ pc # "call" /\ config.quote = "Never")
        => IF AnyCharIn(col, {config.delimiter, as_str(config.line_terminator)[1]})
           THEN wres = Some(Err(MUST_QUOTE)) /\ writer = <<>>
           ELSE wres = Some(Ok(<<>>)) /\ writer = col

C9_Witness ==
    /\ session = "dsv::write_column" /\ pc = "written" /\ config = TSV
    /\ col = <<"a", "CR">>
    /\ wres = Some(Err(MUST_QUOTE))

(* C10: once Rows::next has returned None, every later call returns None   *)
(* and reads no character: a call made after a None returns None and       *)
(* leaves the reader where it was.  For the DSV and the fixed-width Rows.  *)
C10_NoneIsFinal ==
    [][(returned # <<>> /\ Last(returned) = None)
          => (Last(returned') = None /\ reader' = reader)]_vars

C10_Witness ==
    /\ pc = "rows"
    /\ Len(returned) >= 3
    /\ returned[Len(returned) - 1] = None
    /\ Last(returned) = None
    /\ reader < Len(source)

----------------------------------------------------------------------------
(* a value Rows::next returned that is an error (an IoError) *)
IsErr(x) == x # None /\ ~x[1].ok /\ x[1] # TaskFailure

(* C11: when reading a row fails, Rows::next returns the error (not a row  *)
(* of the fields read before it), and a call made after it returns None    *)
(* and leaves the reader where it was.  For the DSV and the fixed-width    *)
(* Rows.                                                                   *)
C11_ErrorEndsStream ==
    [][(returned # <<>> /\ IsErr(Last(returned)))
          => (done /\ Last(returned') = None /\ reader' = reader)]_vars

C11_Witness ==
    /\ Len(returned) >= 3
    /\ IsRow(returned[1]) /\ IsErr(returned[2]) /\ returned[3] = None
    /\ reader < Len(source)

(* C12: when the source has no character left at the start of a row, the   *)
(* fixed-width read_row returns an empty row and the stream ends: a call   *)
(* to Rows::next made at the end of the source returns None.               *)
C12_FixedEndOfSource ==
    [][(IsFixed /\ pc = "rows" /\ reader = Len(source) /\ returned' # returned)
          => Last(returned') = None]_vars

IsPrefix(p, s) == Len(p) <= Len(s) /\ SubSeq(s, 1, Len(p)) = p

(* position p of s is right after a line ending: after the terminator t,   *)
(* or the end of s                                                         *)
AtLineEnd(s, t, p) ==
    p = Len(s) \/ (p >= Len(t) /\ SubSeq(s, p - Len(t) + 1, p) = t)

RECURSIVE SumWidths(_)
SumWidths(columns) ==
    IF columns = <<>> THEN 0 ELSE Head(columns).width + SumWidths(Tail(columns))

(* the characters of one fixed-width row with its line ending *)
FixedRowLen(cfg) ==
    CASE cfg.line_end = Nothing -> SumWidths(cfg.columns)
      [] cfg.line_end[1] = "FixedWidth" -> cfg.line_end[2]
      [] cfg.line_end[1] = "Newline" -> SumWidths(cfg.columns) + Len(as_str(cfg.line_end[2]))

(* C13: constructing a row stream reads nothing, and a call to Rows::next  *)
(* that returns a row leaves the source right after that row's line        *)
(* ending.  DSV, on unquoted text: the characters the call read end with   *)
(* the terminator or at the end of the source, and their last line is the  *)
(* row's (it begins with the row's fields joined by the delimiter).        *)
(* Fixed-width: the call read the characters of one row and its line       *)
(* ending, or stopped at the end of the source.                            *)
C13_LazyReading ==
    /\ []((pc = "rows" /\ returned = <<>>) => reader = 0)
    /\ [][(pc = "rows" /\ returned' # returned /\ IsRow(Last(returned')))
             => /\ reader <= reader'
                /\ (session = "dsv::read_rows" /\ Unquoted(config, source))
                      => /\ AtLineEnd(source, as_str(config.line_terminator), reader')
                         /\ Lines(config, SubSeq(source, reader + 1, reader')) # <<>>
                         /\ IsPrefix(Join(Last(returned')[1].val, config.delimiter),
                                     Last(Lines(config, SubSeq(source, reader + 1, reader'))))
                /\ session = "fixed::read_rows"
                      => \/ reader' = reader + FixedRowLen(config)
                         \/ reader' = Len(source)]_vars

C13_Witness ==
    /\ session = "dsv::read_rows" /\ config = CSV
    /\ source = <<"a", "CR", "LF", "a">>
    /\ returned = <<Some(Ok(<< <<"a">> >>))>>
    /\ reader = 3

(* C14: reading with the quote policy Always returns the same rows and    *)
(* errors as reading with Minimal, the rest of the config being equal:     *)
(* what a run under Minimal has returned is what the same calls return     *)
(* under Always.                                                           *)
C14_AlwaysReadsAsMinimal ==
    (session = "dsv::read_rows" /\ config.quote = "Minimal")
        => returned = dsv_Rows_take([config EXCEPT !.quote = "Always"], source,
                                    [reader |-> 0, done |-> FALSE], Len(returned))

C14_Witness ==
    /\ session = "dsv::read_rows" /\ config = CSV
    /\ source = <<"\"", ",", "\"", ",">>
    /\ Len(returned) = 2
    /\ returned[1] = Some(Ok(<< <<",">>, <<>> >>))

(* s with every character from replaced by to *)
SubstChar(s, from, to) == [i \in 1..Len(s) |-> IF s[i] = from THEN to ELSE s[i]]

(* a value returned by Rows::next, with from replaced by to in its fields *)
SubstReturned(x, from, to) ==
    IF IsRow(x)
    THEN Some(Ok([i \in 1..Len(x[1].val) |-> SubstChar(x[1].val[i], from, to)]))
    ELSE x

(* C15: under the quote policy Never the reader never scans a quoted       *)
(* field: no error of quoted scanning is returned, the quote character is  *)
(* read as any other character of a field is (replacing it by "a" in the   *)
(* text replaces it in the rows and changes nothing else), and a           *)
(* delimiter between two quote characters splits the field.                *)
C15_NeverReadsQuotesAsData ==
    (session = "dsv::read_rows" /\ config.quote = "Never")
        => /\ \A i \in 1..Len(returned) :
                 /\ returned[i] # Some(Err(EXPECTING_LT_OR_DELIM))
                 /\ returned[i] # Some(Err(EXPECTING_QUOTE_CHAR))
           /\ [i \in 1..Len(returned) |-> SubstReturned(returned[i], config.quote_char, "a")]
                 = dsv_Rows_take(config, SubstChar(source, config.quote_char, "a"),
                                 [reader |-> 0, done |-> FALSE], Len(returned))
           /\ (source = <<config.quote_char, config.delimiter, config.quote_char>>
                  /\ returned # <<>>)
                 => returned[1] = Some(Ok(<< <<config.quote_char>>, <<config.quote_char>> >>))

C15_Witness ==
    /\ session = "dsv::read_rows" /\ config = [CSV EXCEPT !.quote = "Never"]
    /\ source = <<"\"", ",", "\"">>
    /\ Len(returned) = 2
    /\ returned[1] = Some(Ok(<< <<"\"">>, <<"\"">> >>))

(* The text s begins with a quoted field: the quote character, a body     *)
(* without the quote character and without the escape character, and the   *)
(* closing quote, which no quote character follows.                        *)
ClosingQuote(cfg, s) ==
    CHOOSE k \in 2..Len(s) : s[k] = cfg.quote_char /\ \A j \in 2..(k - 1) : s[j] # cfg.quote_char

BeginsQuoted(cfg, s) ==
    /\ cfg.quote # "Never"
    /\ Len(s) >= 2 /\ s[1] = cfg.quote_char
    /\ \E k \in 2..Len(s) : s[k] = cfg.quote_char
    /\ \A j \in 2..(ClosingQuote(cfg, s) - 1) : Some(s[j]) # escape_char(cfg)
    /\ ClosingQuote(cfg, s) < Len(s) => s[ClosingQuote(cfg, s) + 1] # cfg.quote_char

QuotedBody(cfg, s) == SubSeq(s, 2, ClosingQuote(cfg, s) - 1)
AfterQuoted(cfg, s) == SubSeq(s, ClosingQuote(cfg, s) + 1, Len(s))

(* C16: inside a quoted field the delimiter and the characters of the      *)
(* line terminator are field data: a text that is one quoted field, ended  *)
(* by the end of input or by the terminator, is read as the row of one     *)
(* field holding every character between the quotes (no error, no          *)
(* InvalidLineEnding, no split).                                           *)
C16_QuotedFieldData ==
    (/\ session = "dsv::read_rows" /\ returned # <<>>
     /\ BeginsQuoted(config, source)
     /\ AfterQuoted(config, source) \in {<<>>, as_str(config.line_terminator)})
        => returned[1] = Some(Ok(<<QuotedBody(config, source)>>))

C16_Witness ==
    /\ session = "dsv::read_rows" /\ config = CSV
    /\ source = <<"\"", ",", "CR", "\"">>
    /\ returned # <<>>
    /\ returned[1] = Some(Ok(<< <<",", "CR">> >>))

(* C17: the character after the closing quote of a quoted field decides:   *)
(* at the end of input the row ends and the stream with it; the            *)
(* terminator ends the row; the delimiter ends the field and the row goes  *)
(* on with the next field; any other character makes the row fail with     *)
(* "Expecting line terminator or delimiter".                               *)
C17_AfterClosingQuote ==
    (/\ session = "dsv::read_rows" /\ returned # <<>>
     /\ BeginsQuoted(config, source))
        => /\ AfterQuoted(config, source) = <<>>
                 => /\ returned[1] = Some(Ok(<<QuotedBody(config, source)>>))
                    /\ \A i \in 2..Len(returned) : returned[i] = None
           /\ IsPrefix(as_str(config.line_terminator), AfterQuoted(config, source))
                 => returned[1] = Some(Ok(<<QuotedBody(config, source)>>))
           /\ AfterQuoted(config, source) = <<config.delimiter, "a">>
                 => returned[1] = Some(Ok(<<QuotedBody(config, source), <<"a">> >>))
           /\ (/\ AfterQuoted(config, source) # <<>>
               /\ AfterQuoted(config, source)[1]
                     \notin {config.delimiter, as_str(config.line_terminator)[1]})
                 => returned[1] = Some(Err(EXPECTING_LT_OR_DELIM))

C17_Witness ==
    /\ session = "dsv::read_rows" /\ config = CSV
    /\ source = <<"\"", "\"", "a">>
    /\ returned # <<>>
    /\ returned[1] = Some(Err(EXPECTING_LT_OR_DELIM))

(* the first position of s that holds ch *)
FirstOf(s, ch) == CHOOSE k \in 1..Len(s) : s[k] = ch /\ \A j \in 1..(k - 1) : s[j] # ch

(* C18: under Escape::Char(c), c not the quote character, when c is read   *)
(* inside a quoted field the next character must be the quote character:  *)
(* it is added to the field and scanning goes on; if another character     *)
(* follows, or the input ends, the row fails with "Expecting quote char".  *)
(* Stated of the texts that open a quoted field and hold c before any      *)
(* other quote character.                                                  *)
C18_EscapeChar ==
    (/\ session = "dsv::read_rows" /\ returned # <<>>
     /\ config.quote # "Never"
     /\ config.escape \notin {Double, Disallowed}
     /\ config.escape[2] # config.quote_char
     /\ source # <<>> /\ source[1] = config.quote_char
     /\ AnyCharIn(Tail(source), {config.escape[2]})
     /\ \A j \in 2..FirstOf(Tail(source), config.escape[2]) : source[j] # config.quote_char)
        => LET e == FirstOf(Tail(source), config.escape[2]) + 1
           IN  /\ (e = Len(source) \/ source[e + 1] # config.quote_char)
                     => returned[1] = Some(Err(EXPECTING_QUOTE_CHAR))
               /\ (e + 2 = Len(source) /\ source[e + 1] = config.quote_char
                      /\ source[e + 2] = config.quote_char)
                     => returned[1]
                           = Some(Ok(<<SubSeq(source, 2, e - 1) \o <<config.quote_char>> >>))

C18_Witness ==
    /\ session = "dsv::read_rows" /\ config = [CSV EXCEPT !.escape = Char("~")]
    /\ source = <<"\"", "~", "\"", "\"">>
    /\ returned # <<>>
    /\ returned[1] = Some(Ok(<< <<"\"">> >>))

(* s is unquoted text of one line so far: no character of the terminator, *)
(* and no quote character where quotes are read                            *)
PlainFields(cfg, s) ==
    ~AnyCharIn(s, Range(as_str(cfg.line_terminator))
                     \cup (IF cfg.quote = "Never" THEN {} ELSE {cfg.quote_char}))

(* position k of s holds the first character of the terminator, read in    *)
(* unquoted text or right after the closing quote of a quoted field        *)
TerminatorStartsAt(cfg, s, k) ==
    /\ k \in 1..Len(s)
    /\ s[k] = as_str(cfg.line_terminator)[1]
    /\ \/ PlainFields(cfg, SubSeq(s, 1, k - 1))
       \/ BeginsQuoted(cfg, s) /\ ClosingQuote(cfg, s) = k - 1

(* C19: under CRLF, when CR is read in unquoted text or right after a      *)
(* closing quote and the character after it is not LF, the row fails with  *)
(* InvalidLineEnding: CR alone does not end the row.                       *)
C19_InvalidLineEnding ==
    (/\ session = "dsv::read_rows" /\ returned # <<>>
     /\ config.line_terminator = "CRLF")
        => \A k \in 1..(Len(source) - 1) :
              (TerminatorStartsAt(config, source, k) /\ source[k + 1] # "LF")
                 => returned[1] = Some(Err(INVALID_LINE_ENDING))

C19_Witness ==
    /\ session = "dsv::read_rows" /\ config = CSV
    /\ source = <<"\"", "\"", "CR", "a">>
    /\ returned # <<>>
    /\ returned[1] = Some(Err(INVALID_LINE_ENDING))

(* C20: when the source ends inside a quoted field, or after the first     *)
(* character of CRLF, the row's result is the end-of-file error, also      *)
(* when fields of the row were read before.                                *)
C20_EndOfInputInside ==
    (session = "dsv::read_rows" /\ returned # <<>>)
        => /\ (/\ config.quote # "Never"
               /\ AnyCharIn(source, {config.quote_char})
               /\ PlainFields(config, SubSeq(source, 1, FirstOf(source, config.quote_char) - 1))
               /\ FirstOf(source, config.quote_char) > 1
                     => source[FirstOf(source, config.quote_char) - 1] = config.delimiter
               /\ \A j \in (FirstOf(source, config.quote_char) + 1)..Len(source) :
                     source[j] # config.quote_char /\ Some(source[j]) # escape_char(config))
                 => returned[1] = Some(Err(EOF_ERROR))
           /\ (/\ config.line_terminator = "CRLF"
               /\ TerminatorStartsAt(config, source, Len(source)))
                 => returned[1] = Some(Err(EOF_ERROR))

C20_Witness ==
    /\ session = "dsv::read_rows" /\ config = CSV
    /\ source = <<"a", ",", "\"", ",">>
    /\ returned # <<>>
    /\ returned[1] = Some(Err(EOF_ERROR))

----------------------------------------------------------------------------
(* C21: every row the fixed-width read_row returns successfully has no     *)
(* field (the source had no character at the start of the row) or one     *)
(* field for each configured column: each row Rows::next has returned has  *)
(* as many fields as the config has columns.                               *)
C21_FullRows ==
    (session = "fixed::read_rows")
        => \A i \in 1..Len(returned) :
              IsRow(returned[i]) => Len(returned[i][1].val) = Len(config.columns)

(* what follows the columns of the row that begins at position p of s *)
AfterColumns(cfg, s, p) == Drop(s, p + SumWidths(cfg.columns))

(* r and t differ at a character, and are equal before it *)
Mismatch(r, t) ==
    \E k \in 1..Len(t) :
        /\ k <= Len(r)
        /\ SubSeq(r, 1, k - 1) = SubSeq(t, 1, k - 1)
        /\ r[k] # t[k]

(* C22: the fixed-width reader under Newline(lt), after the last column of *)
(* a config that has columns, on a row whose columns the source holds in   *)
(* full.  When the source ends right after the last column the row is     *)
(* returned; when it ends after some characters of the terminator and      *)
(* before its last, the row fails with the end-of-file error; when a       *)
(* character differs from the terminator's, the row fails with             *)
(* INVALID_LINE_ENDING; when the terminator is there, the row is returned  *)
(* and the source is left after the terminator.                            *)
C22_NewlineEnding ==
    [][(/\ session = "fixed::read_rows" /\ pc = "rows" /\ ~done
        /\ config.line_end[1] = "Newline"
        /\ config.columns # <<>>
        /\ reader + SumWidths(config.columns) <= Len(source)
        /\ returned' # returned)
          => /\ (AfterColumns(config, source, reader) = <<>>)
                   => (IsRow(Last(returned')) /\ reader' = Len(source))
             /\ (/\ AfterColumns(config, source, reader) # <<>>
                 /\ Len(AfterColumns(config, source, reader))
                        < Len(as_str(config.line_end[2]))
                 /\ IsPrefix(AfterColumns(config, source, reader),
                             as_str(config.line_end[2])))
                   => (Last(returned') = Some(Err(EOF_ERROR)) /\ reader' = Len(source))
             /\ Mismatch(AfterColumns(config, source, reader),
                         as_str(config.line_end[2]))
                   => Last(returned') = Some(Err(INVALID_LINE_ENDING))
             /\ StartsWith(AfterColumns(config, source, reader),
                           as_str(config.line_end[2]))
                   => /\ IsRow(Last(returned'))
                      /\ reader' = reader + FixedRowLen(config)]_vars

(* the source ended between the CR and the LF of the terminator *)
C22_Witness ==
    /\ session = "fixed::read_rows"
    /\ config.line_end = Newline("CRLF")
    /\ SumWidths(config.columns) = 1
    /\ source = <<"a", "CR">>
    /\ returned = <<Some(Err(EOF_ERROR))>>
    /\ reader = 2

(* C23: the fixed-width reader under FixedWidth(w) with column widths      *)
(* that sum to at most w.  A call to Rows::next that returns a row has     *)
(* read exactly w characters, and the row is the one the columns alone     *)
(* give: what the filler characters are does not change it.                *)
C23_FixedWidthRow ==
    [][(/\ session = "fixed::read_rows" /\ pc = "rows"
        /\ config.line_end[1] = "FixedWidth"
        /\ SumWidths(config.columns) <= config.line_end[2]
        /\ returned' # returned
        /\ IsRow(Last(returned')))
          => /\ reader' = reader + config.line_end[2]
             /\ Last(returned')[1] =
                    fixed_read_row([config EXCEPT !.line_end = Nothing],
                                   source, reader).res]_vars

Max(a, b) == IF a >= b THEN a ELSE b

(* C24: the fixed-width reader under FixedWidth(w): one call to            *)
(* Rows::next reads at most max(w, sum of the column widths) characters,   *)
(* so that no filler is read when the widths sum to more than w.           *)
C24_NoFillerBeyondWidth ==
    [][(/\ session = "fixed::read_rows" /\ pc = "rows"
        /\ config.line_end[1] = "FixedWidth"
        /\ returned' # returned)
          => reader' - reader
                <= Max(config.line_end[2], SumWidths(config.columns))]_vars

(* the field f padded to the width of its column, the padding opposite     *)
(* the justification                                                       *)
Padded(colcfg, f) ==
    IF colcfg.justification = "Right"
    THEN Repeat(colcfg.pad_with, colcfg.width - Len(f)) \o f
    ELSE f \o Repeat(colcfg.pad_with, colcfg.width - Len(f))

(* the padded columns of a row, in the order of the config *)
RECURSIVE PaddedColumns(_, _)
PaddedColumns(columns, row) ==
    IF row = <<>> \/ columns = <<>>
    THEN <<>>
    ELSE Padded(Head(columns), Head(row)) \o PaddedColumns(Tail(columns), Tail(row))

(* what ends a row of the given column text *)
RowEnding(cfg) ==
    CASE cfg.line_end = Nothing -> <<>>
      [] cfg.line_end[1] = "FixedWidth" ->
            Repeat(" ", cfg.line_end[2] - SumWidths(cfg.columns))
      [] cfg.line_end[1] = "Newline" -> as_str(cfg.line_end[2])

RECURSIVE PaddedRows(_, _)
PaddedRows(cfg, rs) ==
    IF rs = <<>>
    THEN <<>>
    ELSE PaddedColumns(cfg.columns, Head(rs)) \o RowEnding(cfg)
             \o PaddedRows(cfg, Tail(rs))

(* every row has one field for each column, no longer than its width *)
FittingRows(cfg, rs) ==
    \A i \in 1..Len(rs) :
        /\ Len(rs[i]) = Len(cfg.columns)
        /\ \A j \in 1..Len(rs[i]) : StrLen(rs[i][j]) <= cfg.columns[j].width

(* C25: for rows of one fitting field for each column (and, under          *)
(* FixedWidth(w), columns that sum to at most w), the fixed-width          *)
(* write_rows succeeds and the sink holds, row after row, the padded       *)
(* columns in the order of the config and then nothing (Nothing), spaces   *)
(* up to the width w (FixedWidth(w)) or the terminator (Newline).          *)
C25_RowsWritten ==
    (/\ session = "fixed::write_rows" /\ pc # "call"
     /\ FittingRows(config, rows)
     /\ config.line_end[1] = "FixedWidth"
           => SumWidths(config.columns) <= config.line_end[2])
        => /\ wres = Some(Ok(<<>>))
           /\ writer = PaddedRows(config, rows)

Min(a, b) == IF a <= b THEN a ELSE b

(* the columns write_row writes for a row: as many as the row has fields,  *)
(* and no more than the config has                                         *)
WrittenColumns(cfg, row) ==
    SubSeq(cfg.columns, 1, Min(Len(row), Len(cfg.columns)))

(* no field written is longer than its column *)
FieldsFit(cfg, rs) ==
    \A i \in 1..Len(rs) :
        \A j \in 1..Len(WrittenColumns(cfg, rs[i])) :
            StrLen(rs[i][j]) <= cfg.columns[j].width

(* the column data write_row sends to the sink for a row *)
ColumnData(cfg, row) == fixed_write_columns(cfg.columns, <<>>, row, 0).writer

(* the rows whose written columns sum to more than w *)
TooLongRows(cfg, rs) ==
    {k \in 1..Len(rs) : SumWidths(WrittenColumns(cfg, rs[k])) > cfg.line_end[2]}

FirstTooLong(cfg, rs) ==
    CHOOSE k \in TooLongRows(cfg, rs) : \A j \in TooLongRows(cfg, rs) : k <= j

(* the text of rows written in full under FixedWidth(w) *)
RECURSIVE FixedWidthRows(_, _)
FixedWidthRows(cfg, rs) ==
    IF rs = <<>>
    THEN <<>>
    ELSE ColumnData(cfg, Head(rs))
            \o Repeat(" ", cfg.line_end[2] - SumWidths(WrittenColumns(cfg, Head(rs))))
            \o FixedWidthRows(cfg, Tail(rs))

(* C26: under FixedWidth(w), on rows whose fields fit their columns (so    *)
(* that no column fails), write_row fails exactly when the widths of the   *)
(* columns it wrote sum to more than w, and it fails with ROW_TOO_LONG;    *)
(* the sink then holds the rows before, all the column data of the         *)
(* failing row, and no filler after it.                                    *)
C26_RowTooLong ==
    (/\ session = "fixed::write_rows" /\ pc # "call"
     /\ config.line_end[1] = "FixedWidth"
     /\ FieldsFit(config, rows))
        => IF TooLongRows(config, rows) = {}
           THEN /\ wres = Some(Ok(<<>>))
                /\ writer = FixedWidthRows(config, rows)
           ELSE /\ wres = Some(Err(ROW_TOO_LONG))
                /\ writer =
                      FixedWidthRows(config,
                                     SubSeq(rows, 1, FirstTooLong(config, rows) - 1))
                          \o ColumnData(config, rows[FirstTooLong(config, rows)])

(* two columns of width 2 under FixedWidth(3): both are written, then the  *)
(* row fails                                                               *)
C26_Witness ==
    /\ session = "fixed::write_rows"
    /\ config.line_end = FixedWidth(3)
    /\ rows = << <<<<"a">>, <<"a">>>> >>
    /\ wres = Some(Err(ROW_TOO_LONG))
    /\ writer = <<" ", "a", "a", "#">>

(* C27: the error of a row that is too long is not the error of a column   *)
(* that is too long: when write_rows fails on a row whose columns sum to   *)
(* more than w, every field fitting its column, the value returned is not  *)
(* equal to Err(COLUMN_TOO_LONG).                                          *)
C27_DistinctErrors ==
    (/\ session = "fixed::write_rows" /\ pc # "call"
     /\ config.line_end[1] = "FixedWidth"
     /\ FieldsFit(config, rows)
     /\ TooLongRows(config, rows) # {})
        => /\ wres # None
           /\ ~wres[1].ok
           /\ wres[1] # Err(COLUMN_TOO_LONG)

(* C28: a successful fixed-width write_row emits, for any row, column data *)
(* of as many characters as the configured widths sum to: when write_rows  *)
(* has succeeded, no row has a field beyond the last column (none was      *)
(* dropped), the column data of every row is that long, and the sink holds *)
(* one full row of text for each row.                                      *)
C28_FullRowsWritten ==
    (/\ session = "fixed::write_rows" /\ pc # "call"
     /\ wres = Some(Ok(<<>>)))
        => /\ \A i \in 1..Len(rows) :
                 /\ Len(rows[i]) <= Len(config.columns)
                 /\ Len(ColumnData(config, rows[i])) = SumWidths(config.columns)
           /\ Len(writer) = Len(rows) * FixedRowLen(config)

(* the field f with the escape character before each quote character *)
RECURSIVE Escaped(_, _)
Escaped(cfg, f) ==
    IF f = <<>> THEN <<>>
    ELSE IF Head(f) = cfg.quote_char /\ escape_char(cfg) # None
    THEN <<escape_char(cfg)[1], Head(f)>> \o Escaped(cfg, Tail(f))
    ELSE <<Head(f)>> \o Escaped(cfg, Tail(f))

(* the field f between quote characters *)
QuotedText(cfg, f) == <<cfg.quote_char>> \o Escaped(cfg, f) \o <<cfg.quote_char>>

(* f holds the delimiter or the first character of the line terminator *)
HoldsSeparator(cfg, f) ==
    AnyCharIn(f, {cfg.delimiter, as_str(cfg.line_terminator)[1]})

(* the text of a field in a written row *)
FieldText(cfg, f) ==
    IF cfg.quote = "Always" \/ (cfg.quote = "Minimal" /\ HoldsSeparator(cfg, f))
    THEN QuotedText(cfg, f)
    ELSE f

(* the texts of the fields of a row with one delimiter between them *)
RECURSIVE FieldTexts(_, _)
FieldTexts(cfg, row) ==
    IF row = <<>> THEN <<>>
    ELSE IF Len(row) = 1 THEN FieldText(cfg, row[1])
    ELSE FieldText(cfg, row[1]) \o <<cfg.delimiter>> \o FieldTexts(cfg, Tail(row))

RECURSIVE RowTexts(_, _)
RowTexts(cfg, rs) ==
    IF rs = <<>>
    THEN <<>>
    ELSE FieldTexts(cfg, Head(rs)) \o as_str(cfg.line_terminator)
            \o RowTexts(cfg, Tail(rs))

(* C29: when the DSV write_rows has succeeded the sink holds, row after    *)
(* row in order, the texts of the row's fields in order with one delimiter *)
(* between consecutive fields (none before the first, none after the       *)
(* last), followed by the whole line terminator.                           *)
C29_RowsJoined ==
    (/\ session = "dsv::write_rows" /\ pc # "call"
     /\ wres = Some(Ok(<<>>)))
        => writer = RowTexts(config, rows)

C29_Witness ==
    /\ session = "dsv::write_rows" /\ config = CSV
    /\ rows = << <<<<"a">>, <<"a">>>> >>
    /\ wres = Some(Ok(<<>>))
    /\ writer = <<"a", ",", "a", "CR", "LF">>

(* C30: the DSV write_column under Always writes every field between quote *)
(* characters; under Minimal it does so exactly when the field holds the   *)
(* delimiter or the first character of the line terminator, and writes     *)
(* the field as it is otherwise.                                           *)
C30_QuotedWhenRequired ==
    (session = "dsv::write_column" /\ pc # "call")
        => /\ (config.quote = "Always"
                  \/ (config.quote = "Minimal" /\ HoldsSeparator(config, col)))
                 => /\ writer # <<>>
                    /\ writer[1] = config.quote_char
                    /\ wres[1].ok => writer = QuotedText(config, col)
           /\ (config.quote = "Minimal" /\ ~HoldsSeparator(config, col))
                 => /\ wres = Some(Ok(<<>>))
                    /\ writer = col

(* under CRLF a line feed is not the first character of the terminator:    *)
(* the field is written without quotes                                     *)
C30_Witness ==
    /\ session = "dsv::write_column" /\ config = CSV
    /\ col = <<"a", "LF">>
    /\ wres = Some(Ok(<<>>))
    /\ writer = <<"a", "LF">>

----------------------------------------------------------------------------
(* the field is written between quote characters *)
WrittenQuoted(cfg, f) ==
    cfg.quote = "Always" \/ (cfg.quote = "Minimal" /\ HoldsSeparator(cfg, f))

(* C31: while write_column writes a quoted field, a quote character in the *)
(* field under Escape::Disallowed makes it fail with ESCAPE_DISALLOWED,    *)
(* and the escape character c in the field under Escape::Char(c), c not    *)
(* the quote character, makes it fail with ESCAPE_CHAR_IN_QUOTE.  The sink *)
(* then holds the opening quote and the text of the field's characters     *)
(* before the first offending one, and nothing else.                       *)
C31_EscapeFailures ==
    (/\ session = "dsv::write_column" /\ pc # "call"
     /\ WrittenQuoted(config, col))
        => /\ (config.escape = Disallowed /\ AnyCharIn(col, {config.quote_char}))
                 => /\ wres = Some(Err(ESCAPE_DISALLOWED))
                    /\ writer = <<config.quote_char>>
                          \o SubSeq(col, 1, FirstOf(col, config.quote_char) - 1)
           /\ (/\ config.escape \notin {Double, Disallowed}
               /\ config.escape[2] # config.quote_char
               /\ AnyCharIn(col, {config.escape[2]}))
                 => /\ wres = Some(Err(ESCAPE_CHAR_IN_QUOTE))
                    /\ writer = <<config.quote_char>>
                          \o Escaped(config,
                                     SubSeq(col, 1, FirstOf(col, config.escape[2]) - 1))

(* "a~a" under Escape::Char("~"): the opening quote and the first "a" are  *)
(* in the sink                                                             *)
C31_Witness ==
    /\ session = "dsv::write_column"
    /\ config = [CSV EXCEPT !.escape = Char("~"), !.quote = "Always"]
    /\ col = <<"a", "~", "a">>
    /\ wres = Some(Err(ESCAPE_CHAR_IN_QUOTE))
    /\ writer = <<"\"", "a">>

(* C32: no call to a row iterator's next() ends in a task failure (an      *)
(* index out of bounds, an arithmetic underflow), whatever the config:     *)
(* every value Rows::next has returned is a row, None, or an error value.  *)
C32_NoTaskFailure ==
    \A i \in 1..Len(returned) : returned[i] # Some(TaskFailure)

(* the positions ps increase from position p on, and each is right after   *)
(* a whole terminator t of the text s                                      *)
RECURSIVE AfterTerminators(_, _, _, _)
AfterTerminators(s, t, p, ps) ==
    IF ps = <<>>
    THEN TRUE
    ELSE /\ Head(ps) >= p + Len(t)
         /\ SubSeq(s, Head(ps) - Len(t) + 1, Head(ps)) = t
         /\ AfterTerminators(s, t, Head(ps), Tail(ps))

(* the rows among the values returned *)
RowsReturned == {i \in 1..Len(returned) : IsRow(returned[i])}

(* C33: the DSV read_row ends on every finite source.  Each time it calls  *)
(* itself again after a row without a field, a whole line terminator has   *)
(* been read since the attempt before, so the attempts are no more than    *)
(* the source has terminators; a call to Rows::next that returns a row     *)
(* has read a character, so the rows returned are no more than the         *)
(* characters read; after more calls than the source has characters the   *)
(* stream is done; and a consumer that keeps calling next() comes to the   *)
(* end of the stream.                                                      *)
C33_ReadRowTerminates ==
    /\ [][(session = "dsv::read_rows" /\ pc = "rows" /\ returned' # returned)
            => /\ AfterTerminators(source, as_str(config.line_terminator), reader,
                                   dsv_read_row(config, source, reader).retries)
               /\ IsRow(Last(returned')) => reader' > reader]_vars
    /\ []((session = "dsv::read_rows")
            => /\ Cardinality(RowsReturned) <= reader
               /\ Len(returned) > Len(source) => done)
    /\ <>done

(* two blank lines before a row: read_row called itself twice *)
C33_Witness ==
    /\ session = "dsv::read_rows"
    /\ config = [CSV EXCEPT !.line_terminator = "LF"]
    /\ source = <<"LF", "LF", "a", "a">>
    /\ dsv_read_row(config, source, 0).retries = <<1, 2>>
    /\ returned = <<Some(Ok(<< <<"a", "a">> >>)), None>>
    /\ done

(* C34: under the quote policy Always with Double escaping, for rows that  *)
(* each have a field, write_rows succeeds and read_rows on the text        *)
(* written returns the same rows in order and then None: empty fields,     *)
(* rows of one empty field and fields that begin with the quote character  *)
(* come back as they were.                                                 *)
C34_AlwaysRoundTrip ==
    (/\ session = "dsv::write_rows" /\ pc # "call"
     /\ config.quote = "Always" /\ config.escape = Double
     /\ \A i \in 1..Len(rows) : rows[i] # <<>>)
        => /\ wres = Some(Ok(<<>>))
           /\ \A i \in 1..Len(returned) :
                 returned[i] = (IF i <= Len(rows) THEN Some(Ok(rows[i])) ELSE None)

(* a row of one empty field and a row whose field begins with the quote    *)
(* character, read back                                                    *)
C34_Witness ==
    /\ session = "dsv::write_rows"
    /\ config = [CSV EXCEPT !.quote = "Always"]
    /\ rows = << << <<>> >>, << <<"\"">> >> >>
    /\ writer = <<"\"", "\"", "CR", "LF", "\"", "\"", "\"", "\"", "CR", "LF">>
    /\ returned = <<Some(Ok(rows[1])), Some(Ok(rows[2])), None>>

(* the config with Escape::Double in place of its escape rule *)
AsDouble(cfg) == [cfg EXCEPT !.escape = Double]

(* C35: under Escape::Char(c) with c the quote character, the reader and   *)
(* the writer do what they do under Escape::Double: the calls to           *)
(* Rows::next return the same values on every text, write_column and       *)
(* write_rows leave the same text in the sink and return the same result   *)
(* for every field and rows, and neither "Expecting quote char" nor        *)
(* ESCAPE_CHAR_IN_QUOTE is returned.                                       *)
C35_CharQuoteIsDouble ==
    (IsDsv /\ config.escape = Char(config.quote_char))
        => /\ returned = dsv_Rows_take(AsDouble(config), source,
                                       [reader |-> 0, done |-> FALSE], Len(returned))
           /\ \A i \in 1..Len(returned) : returned[i] # Some(Err(EXPECTING_QUOTE_CHAR))
           /\ (session = "dsv::write_column" /\ pc # "call")
                 => /\ writer = dsv_write_column(AsDouble(config), <<>>, col).writer
                    /\ wres = Some(dsv_write_column(AsDouble(config), <<>>, col).res)
                    /\ wres # Some(Err(ESCAPE_CHAR_IN_QUOTE))
           /\ (session = "dsv::write_rows" /\ pc # "call")
                 => /\ writer = dsv_write_rows(AsDouble(config), <<>>, rows).writer
                    /\ wres = Some(dsv_write_rows(AsDouble(config), <<>>, rows).res)
                    /\ wres # Some(Err(ESCAPE_CHAR_IN_QUOTE))

(* the text of four quote characters is read as the field of one quote     *)
(* character, the second being read as the escape of the third             *)
C35_Witness ==
    /\ session = "dsv::read_rows"
    /\ config = [CSV EXCEPT !.escape = Char("\"")]
    /\ source = <<"\"", "\"", "\"", "\"">>
    /\ returned = <<Some(Ok(<< <<"\"">> >>)), None>>
=============================================================================
